---- MODULE Spec2Model ----
(***************************************************************************)
(* gprMax: the per-model driver run_model (gprMax/gprMax.py) and the grid  *)
(* record FDTDGrid (gprMax/grid.py).                                       *)
(*                                                                         *)
(* A behaviour is main()'s serial loop over model runs.  Each run builds   *)
(* a fresh grid from the parsed input, creates the materials of resistive  *)
(* voltage sources, derives the update coefficients, writes the geometry   *)
(* views and, unless --geometry-only, prepares the output, displaces the   *)
(* sources and receivers and runs the FDTD time loop.                      *)
(*                                                                         *)
(* Field values are symbolic: the value of the six field arrays is the     *)
(* sequence of update operations applied to the all-zero arrays.  Times    *)
(* are counted in units of dt/2.  Conductivities are exact rationals.      *)
(***************************************************************************)
EXTENDS Integers, Sequences, FiniteSets, TLC

\* ------------------------------------------------------------------ bounds
MaxIter == 2
MaxPoles == 2
MaxSrc == 2
MaxRuns == 2
MaxR == 2

\* ----------------------------------------------------------------- helpers
\* Grid size in cells and cell edge lengths (input parameters, fixed here;
\* the three lengths differ so that the three polarisations differ).
Cells == [nx |-> 2, ny |-> 1, nz |-> 1]
Delta == [dx |-> 1, dy |-> 2, dz |-> 3]

Nodes == (0..Cells.nx) \X (0..Cells.ny) \X (0..Cells.nz)
Components == 0..5

\* Exact rationals <<numerator, denominator>>, denominator > 0.
RatAdd(a, b) == <<a[1] * b[2] + b[1] * a[2], a[2] * b[2]>>
RatEq(a, b) == a[1] * b[2] = b[1] * a[2]

\* "not passed" for a call argument
NoArg == -1

Count(s, P(_)) == Cardinality({i \in DOMAIN s : P(s[i])})

VARIABLES
    inp,            \* the processed input file and the command line (fixed)
    maxpoles,       \* Material.maxpoles
    modelrun,       \* main: loop variable of the serial loop over model runs
    pc,             \* position in main / run_model
    materials,      \* G.materials
    ID,             \* G.ID[c, x, y, z]
    solid,          \* G.solid[x, y, z]
    voltagesources, \* G.voltagesources
    hertziandipoles,\* G.hertziandipoles
    magneticdipoles,\* G.magneticdipoles
    transmissionlines, \* G.transmissionlines
    rxs,            \* G.rxs
    vi,             \* run_model: index of the voltage source being processed
    updatecoeffsE,  \* G.updatecoeffsE (one row per material)
    geowritten,     \* geometry view files written in this run
    snapshots,      \* G.snapshots: time, prepared, number of writes
    f,              \* the output file of this run
    abstime,        \* run_model: abstime, in units of dt/2
    timestep,       \* run_model: loop variable of the time loop
    fields,         \* G.Ex .. G.Hz as the sequence of updates applied
    calls,          \* calls made by run_model in this run, in order
    arrays,         \* the arrays allocated on G, by name: shape and content
    invoked,        \* the FDTDGrid methods run_model has called on G, in order
    grid,           \* grid.py functions: the Grid they are applied to
    fn,             \* grid.py functions: the function applied ("none": not yet)
    kwargs,         \* within_bounds: its keyword arguments, in order
    position,       \* Ix, Iy, Iz: the arguments x, y, z
    H,              \* Ix, Iy, Iz: the arrays Hx, Hy, Hz
    result,         \* grid.py functions: what the function returned or raised
    usernamespace,  \* main: the dictionary usernamespace handed to every run_model
    cancel,         \* a cancellation of the run has been requested
    size,           \* mpi_runs: comm.size, the number of MPI processes
    master,         \* mpi_runs, rank 0: position, modelrun, closedworkers
    workers,        \* mpi_runs, rank > 0: position and modelrun of each worker
    channel,        \* messages sent and not yet received, per sender and receiver
    started,        \* the START messages the master has sent, in order
    completed,      \* the run_model calls that have returned, in order
    donereceived,   \* the number of DONE messages the master has received
    taguchi,        \* main, Taguchi routine: position, i, modelrun, numbermodelruns, N, k
    optparams,      \* main, Taguchi routine: the values of each parameter to optimise
    experiments,    \* the run_model calls of the Taguchi routine, in order
    files,          \* the output files written, by name
    fitness         \* main, Taguchi routine: the fitness array and what it was read from

\* The state of the functions of grid.py applied on their own.
gridvars == <<grid, fn, kwargs, position, H, result>>

\* The task farm of mpi_runs.
farmvars == <<size, master, workers, channel, started, completed, donereceived>>

\* The Taguchi routine of main.
taguchivars == <<taguchi, optparams, experiments, files, fitness>>

\* What main's serial loop and run_model never assign.
outside == <<gridvars, farmvars, taguchivars, cancel>>

\* The state of main and run_model.
runstate == <<maxpoles, modelrun, pc, materials, ID, voltagesources, hertziandipoles,
              magneticdipoles, transmissionlines, rxs, vi, updatecoeffsE, geowritten, snapshots, f,
              abstime, timestep, fields, calls, arrays, invoked, solid>>

runvars == <<usernamespace, inp, runstate>>

vars == <<runvars, outside>>

\* ------------------------------------------------------------------ inputs
Polarisations == {"x", "y", "z"}

\* The catalogue as the Yee-cell build leaves it: numID = position.
BuiltMaterials ==
    << [numID |-> 0, ID |-> [base |-> "pec", vs |-> <<>>], er |-> 1, se |-> <<0, 1>>, mr |-> 1, sm |-> 0, average |-> FALSE],
       [numID |-> 1, ID |-> [base |-> "free_space", vs |-> <<>>], er |-> 1, se |-> <<0, 1>>, mr |-> 1, sm |-> 0, average |-> TRUE],
       [numID |-> 2, ID |-> [base |-> "soil", vs |-> <<>>], er |-> 6, se |-> <<1, 100>>, mr |-> 2, sm |-> 1, average |-> TRUE] >>

\* The edge IDs as the Yee-cell build leaves them: free space everywhere
\* ("free"), or a half space of soil at x >= 1 ("half").
BuiltID(geometry) ==
    [e \in Components \X Nodes |-> IF geometry = "half" /\ e[2][1] >= 1 THEN 2 ELSE 1]

\* The cell materials as the geometry commands leave them.
BuiltSolid(geometry) ==
    [p \in Nodes |-> IF geometry = "half" /\ p[1] >= 1 THEN 2 ELSE 1]

Origin == <<0, 0, 0>>
SweepPositions == {Origin, <<1, 1, 1>>}
StepValues == {-1, 0, 1}
Steps == StepValues \X StepValues \X StepValues
NoStep == <<0, 0, 0>>

SeqsUpTo(S, n) == UNION {[1..k -> S] : k \in 0..n}

\* Where the i-th voltage source of a layout sits.
LayoutPosition(layout, i) ==
    IF layout = "apart" /\ i % 2 = 0 THEN <<1, 0, 0>> ELSE Origin

Dipole(p) == [position |-> p]
TransmissionLine(p) == [position |-> p]
Receiver(p) == [position |-> p]

DefaultInput ==
    [iterations |-> 1, maxpoles |-> 0,
     voltagesources |-> <<>>, hertziandipoles |-> <<>>, magneticdipoles |-> <<>>,
     transmissionlines |-> <<>>,
     rxs |-> <<Receiver(Origin)>>, snapshots |-> <<>>,
     srcstep |-> NoStep, rxstep |-> NoStep,
     geometryviews |-> 0, geometry_only |-> FALSE, numbermodelruns |-> 1,
     geometry |-> "free", mpi |-> FALSE, opt_taguchi |-> FALSE]

\* Inputs that vary the schedule: iterations, poles and the number of sources.
InputsSchedule ==
    {[DefaultInput EXCEPT
        !.iterations = it, !.maxpoles = mp,
        !.voltagesources = [i \in 1..nv |-> [polarisation |-> "x", position |-> Origin, resistance |-> i - 1]],
        !.hertziandipoles = [i \in 1..nh |-> Dipole(Origin)],
        !.magneticdipoles = [i \in 1..nm |-> Dipole(Origin)]] :
        it \in 0..MaxIter, mp \in 0..MaxPoles, nv \in 0..MaxSrc, nh \in 0..MaxSrc, nm \in 0..MaxSrc}

\* Inputs that vary the snapshots, the geometry views and --geometry-only.
InputsSnapshots ==
    {[DefaultInput EXCEPT
        !.iterations = it, !.snapshots = sn, !.geometryviews = Len(sn),
        !.geometry_only = go,
        !.hertziandipoles = <<Dipole(Origin)>>] :
        it \in 0..MaxIter, sn \in SeqsUpTo(0..(MaxIter + 1), MaxSrc), go \in BOOLEAN}

\* Inputs that vary the voltage sources and the geometry they sit in.
InputsVoltage ==
    {[DefaultInput EXCEPT
        !.voltagesources = [i \in DOMAIN vs |->
            [polarisation |-> vs[i][1], position |-> LayoutPosition(g[1], i), resistance |-> vs[i][2]]],
        !.geometry = g[2]] :
        vs \in SeqsUpTo(Polarisations \X (0..MaxR), MaxSrc),
        g \in {<<"together", "free">>, <<"apart", "half">>}}

Displaced(p, k, step) ==
    <<p[1] + (k - 1) * step[1], p[2] + (k - 1) * step[2], p[3] + (k - 1) * step[3]>>

\* Inputs of a B-scan: repeated runs with source and receiver steps; every
\* position of the sweep lies inside the grid.
StepPairs ==
    {<<s, s>> : s \in Steps} \cup {<<s, NoStep>> : s \in Steps} \cup {<<NoStep, s>> : s \in Steps}

InputsSweep ==
    {i \in
        {[DefaultInput EXCEPT
            !.numbermodelruns = n, !.srcstep = st[1], !.rxstep = st[2],
            !.geometry_only = go, !.geometryviews = IF go THEN 1 ELSE 0,
            !.voltagesources = <<[polarisation |-> "x", position |-> p, resistance |-> r]>>,
            !.hertziandipoles = <<Dipole(p)>>,
            !.magneticdipoles = <<Dipole(p)>>,
            !.transmissionlines = [k \in 1..nt |-> TransmissionLine(p)],
            !.rxs = <<Receiver(p)>>] :
            n \in 1..MaxRuns, st \in StepPairs, p \in SweepPositions, r \in {0, MaxR}, nt \in 0..1,
            go \in BOOLEAN} :
        \A k \in 1..i.numbermodelruns :
            /\ Displaced(i.voltagesources[1].position, k, i.srcstep) \in Nodes
            /\ Displaced(i.rxs[1].position, k, i.rxstep) \in Nodes}

Inputs == InputsSchedule \cup InputsSnapshots \cup InputsVoltage \cup InputsSweep

\* ------------------------------------------------- the arrays of FDTDGrid
\* np.zeros(shape) and np.ones(shape): an array of a shape, every element equal.
np_zeros(shape) == [shape |-> shape, fill |-> 0]
np_ones(shape) == [shape |-> shape, fill |-> 1]

\* self.solid = np.ones((self.nx + 1, self.ny + 1, self.nz + 1), dtype=np.uint32)
SolidInitial == [p \in Nodes |-> 1]

\* Mutant: the edge IDs start at zero.
IDInitialZeros == [e \in Components \X Nodes |-> 0]

\* self.ID = np.ones((6, self.nx + 1, self.ny + 1, self.nz + 1), dtype=np.uint32)
IDInitial == [e \in Components \X Nodes |-> 1]

\* FDTDGrid.initialise_geometry_arrays: the rigid masks (solid and ID are
\* state of their own).
initialise_geometry_arrays(n) ==
    ("rigidE" :> np_zeros(<<12, n.nx + 1, n.ny + 1, n.nz + 1>>))
    @@ ("rigidH" :> np_zeros(<<6, n.nx + 1, n.ny + 1, n.nz + 1>>))

\* FDTDGrid.initialise_field_arrays
initialise_field_arrays(n) ==
    ("Ex" :> np_zeros(<<n.nx, n.ny + 1, n.nz + 1>>))
    @@ ("Ey" :> np_zeros(<<n.nx + 1, n.ny, n.nz + 1>>))
    @@ ("Ez" :> np_zeros(<<n.nx + 1, n.ny + 1, n.nz>>))
    @@ ("Hx" :> np_zeros(<<n.nx + 1, n.ny, n.nz>>))
    @@ ("Hy" :> np_zeros(<<n.nx, n.ny + 1, n.nz>>))
    @@ ("Hz" :> np_zeros(<<n.nx, n.ny, n.nz + 1>>))

\* FDTDGrid.initialise_std_update_coeff_arrays
initialise_std_update_coeff_arrays(nmaterials) ==
    ("updatecoeffsE" :> np_zeros(<<nmaterials, 5>>))
    @@ ("updatecoeffsH" :> np_zeros(<<nmaterials, 5>>))

\* FDTDGrid.initialise_dispersive_arrays
initialise_dispersive_arrays(n, poles, nmaterials) ==
    ("Tx" :> np_zeros(<<poles, n.nx, n.ny + 1, n.nz + 1>>))
    @@ ("Ty" :> np_zeros(<<poles, n.nx + 1, n.ny, n.nz + 1>>))
    @@ ("Tz" :> np_zeros(<<poles, n.nx + 1, n.ny + 1, n.nz>>))
    @@ ("updatecoeffsdispersive" :> np_zeros(<<nmaterials, 3 * poles>>))

\* The methods the class FDTDGrid provides for allocating arrays.
FDTDGridMethods ==
    {"initialise_geometry_arrays", "initialise_field_arrays",
     "initialise_std_update_coeff_arrays", "initialise_dispersive_arrays"}

\* What a call gives: the value it returns, or the exception it raises with
\* the exception's argument.
Returns(v) == [raised |-> "", value |-> v]
Raises(e, a) == [raised |-> e, value |-> a]

\* The functions of grid.py have not been applied.
GridIdle ==
    /\ grid = [nx |-> Cells.nx, ny |-> Cells.ny, nz |-> Cells.nz,
               dx |-> Delta.dx, dy |-> Delta.dy, dz |-> Delta.dz]
    /\ fn = "none"
    /\ kwargs = <<>>
    /\ position = Origin
    /\ H = <<>>
    /\ result = Returns("None")

\* FDTDGrid.__init__: the empty grid.
RunInitial ==
    /\ maxpoles = 0
    /\ modelrun = 1
    /\ pc = "main"
    /\ materials = <<>>
    /\ ID = IDInitial
    /\ voltagesources = <<>>
    /\ hertziandipoles = <<>>
    /\ magneticdipoles = <<>>
    /\ transmissionlines = <<>>
    /\ rxs = <<>>
    /\ vi = 0
    /\ updatecoeffsE = <<>>
    /\ geowritten = 0
    /\ snapshots = <<>>
    /\ f = [state |-> "none", name |-> 0, srcpos |-> <<>>, rxpos |-> <<>>, samples |-> <<>>]
    /\ abstime = 0
    /\ timestep = 0
    /\ fields = <<>>
    /\ calls = <<>>
    /\ arrays = <<>>
    /\ invoked = <<>>
    /\ solid = SolidInitial

\* main, line 71: the namespace that users can access in Python code blocks.
UserNamespace(numbermodelruns) ==
    [c |-> "c", e0 |-> "e0", m0 |-> "m0", z0 |-> "z0",
     number_model_runs |-> numbermodelruns, inputdirectory |-> "inputdirectory"]

\* mpi_runs has not been called.
FarmIdle ==
    /\ size = 1
    /\ master = [pc |-> "none", modelrun |-> 0, closedworkers |-> 0]
    /\ workers = <<>>
    /\ channel = <<>>
    /\ started = <<>>
    /\ completed = <<>>
    /\ donereceived = 0

\* The Taguchi routine has not been entered.
TaguchiIdle ==
    /\ taguchi = [pc |-> "none", i |-> 0, modelrun |-> 0, numbermodelruns |-> 0, N |-> 0, k |-> 0]
    /\ optparams = <<>>
    /\ experiments = <<>>
    /\ files = <<>>
    /\ fitness = <<>>

\* main() up to its choice of routine; nobody has asked for a cancellation.
MainInitial ==
    /\ usernamespace = UserNamespace(inp.numbermodelruns)
    /\ cancel = FALSE

\* main() before the first model run; the functions of grid.py are not applied.
Init ==
    /\ inp \in Inputs
    /\ MainInitial
    /\ RunInitial
    /\ GridIdle
    /\ FarmIdle
    /\ TaguchiIdle

\* ------------------------------------------------------------- main driver
\* main, the serial loop: for modelrun in range(1, numbermodelruns + 1):
\* run_model(args, modelrun, numbermodelruns, inputfile, usernamespace)
MainNextRun ==
    /\ pc = "main"
    /\ modelrun <= inp.numbermodelruns
    /\ pc' = "build"
    /\ UNCHANGED <<inp, outside, usernamespace, arrays, invoked, solid, maxpoles, modelrun, materials, ID, voltagesources, hertziandipoles,
                   magneticdipoles, transmissionlines, rxs, vi, updatecoeffsE, geowritten, snapshots,
                   f, abstime, timestep, fields, calls>>

\* run_model returns to main's loop, which takes the next model run.
Return == /\ pc' = "main" /\ modelrun' = modelrun + 1

\* run_model up to G.initialise_std_arrays(): a new FDTDGrid, filled from the
\* commands of the input file, and its geometry and field arrays.  run_model
\* calls the allocation by the name initialise_std_arrays; the class provides
\* it as initialise_geometry_arrays and initialise_field_arrays.  The call is
\* recorded under the name run_model uses and is taken to allocate the arrays
\* the comment at the call names, so that the rest of run_model can be followed.
InitialiseGrid ==
    /\ pc = "build"
    /\ materials' = BuiltMaterials
    /\ invoked' = <<"initialise_std_arrays">>
    /\ arrays' = initialise_geometry_arrays(Cells) @@ initialise_field_arrays(Cells)
    /\ solid' = SolidInitial
    /\ ID' = IDInitial
    /\ voltagesources' = inp.voltagesources
    /\ hertziandipoles' = inp.hertziandipoles
    /\ magneticdipoles' = inp.magneticdipoles
    /\ transmissionlines' = inp.transmissionlines
    /\ rxs' = inp.rxs
    /\ snapshots' = [i \in DOMAIN inp.snapshots |->
                        [time |-> inp.snapshots[i], prepared |-> FALSE, written |-> 0, data |-> <<>>]]
    /\ fields' = <<>>
    /\ updatecoeffsE' = <<>>
    /\ geowritten' = 0
    /\ f' = [state |-> "none", name |-> 0, srcpos |-> <<>>, rxpos |-> <<>>, samples |-> <<>>]
    /\ calls' = <<>>
    /\ abstime' = 0
    /\ timestep' = 0
    /\ vi' = 1
    /\ maxpoles' = inp.maxpoles
    /\ usernamespace' = ("current_model_run" :> modelrun) @@ usernamespace
    /\ pc' = "geometry"
    /\ UNCHANGED <<inp, outside, modelrun>>

\* process_geometrycmds, build_pml and the six Yee-cell build calls: the cell
\* materials and the material of every edge.
BuildGrid ==
    /\ pc = "geometry"
    /\ solid' = BuiltSolid(inp.geometry)
    /\ ID' = BuiltID(inp.geometry)
    /\ pc' = "voltagesources"
    /\ UNCHANGED <<inp, outside, usernamespace, arrays, invoked, maxpoles, modelrun, materials, voltagesources,
                   hertziandipoles, magneticdipoles, transmissionlines, rxs, vi, updatecoeffsE,
                   geowritten, snapshots, f, abstime, timestep, fields, calls>>

\* ------------------------------------------- voltage source materials
\* The ID component of a polarisation: 'x' -> 0, 'y' -> 1, 'z' -> 2.
IDcomponent(polarisation) ==
    CASE polarisation = "x" -> 0
      [] polarisation = "y" -> 1
      [] polarisation = "z" -> 2

\* Mutant: the x formula is used for every polarisation.
SourceConductivityOfX(polarisation, resistance) ==
    <<Delta.dx, resistance * Delta.dy * Delta.dz>>

\* G.d<par> / (source.resistance * G.d<perp1> * G.d<perp2>)
SourceConductivity(polarisation, resistance) ==
    CASE polarisation = "x" -> <<Delta.dx, resistance * Delta.dy * Delta.dz>>
      [] polarisation = "y" -> <<Delta.dy, resistance * Delta.dx * Delta.dz>>
      [] polarisation = "z" -> <<Delta.dz, resistance * Delta.dx * Delta.dy>>

\* next(x for x in G.materials if x.numID == requirednumID)
MaterialWithNumID(mats, requirednumID) ==
    mats[CHOOSE i \in DOMAIN mats :
            /\ mats[i].numID = requirednumID
            /\ \A j \in 1..(i - 1) : mats[j].numID # requirednumID]

\* Mutant: the derived material is numbered from one.
NewMaterialOneBased(mats, id, source) ==
    LET material == MaterialWithNumID(mats, id[<<IDcomponent(source.polarisation), source.position>>])
    IN [material EXCEPT
          !.ID = [base |-> material.ID.base, vs |-> Append(material.ID.vs, source.resistance)],
          !.numID = Len(mats) + 1,
          !.se = RatAdd(material.se, SourceConductivity(source.polarisation, source.resistance)),
          !.average = FALSE]

\* The derived material of one resistive voltage source.
NewMaterial(mats, id, source) ==
    LET material == MaterialWithNumID(mats, id[<<IDcomponent(source.polarisation), source.position>>])
    IN [material EXCEPT
          !.ID = [base |-> material.ID.base, vs |-> Append(material.ID.vs, source.resistance)],
          !.numID = Len(mats),
          !.se = RatAdd(material.se, SourceConductivity(source.polarisation, source.resistance)),
          !.average = FALSE]

\* One iteration of: for source in G.voltagesources: if source.resistance != 0: ...
VoltageSourceMaterial ==
    /\ pc = "voltagesources"
    /\ vi <= Len(voltagesources)
    /\ LET source == voltagesources[vi]
           newmaterial == NewMaterial(materials, ID, source)
       IN IF source.resistance # 0
          THEN /\ ID' = [ID EXCEPT ![<<IDcomponent(source.polarisation), source.position>>] = newmaterial.numID]
               /\ materials' = Append(materials, newmaterial)
          ELSE UNCHANGED <<ID, materials>>
    /\ vi' = vi + 1
    /\ UNCHANGED <<inp, outside, usernamespace, arrays, invoked, solid, maxpoles, modelrun, pc, voltagesources, hertziandipoles, magneticdipoles, transmissionlines, rxs,
                   updatecoeffsE, geowritten, snapshots, f, abstime, timestep, fields, calls>>

\* The row of update coefficients of a material: CA, CB and srce depend on
\* the material's properties only; a row is stood for by those properties.
Coefficients(material) == [er |-> material.er, se |-> material.se]

\* The row of H update coefficients of a material: DA, DB and srcm.
CoefficientsH(material) == [mr |-> material.mr, sm |-> material.sm]

\* Mutant: the rows are derived from the catalogue as the build left it.
CoefficientRowsOfBuild(mats) ==
    [x \in 1..Len(BuiltMaterials) |-> Coefficients(mats[x])]

\* for x, material in enumerate(G.materials): G.updatecoeffsE[x, :] = ...
CoefficientRows(mats) ==
    [x \in 1..Len(mats) |-> Coefficients(mats[x])]

\* for x, material in enumerate(G.materials): G.updatecoeffsH[x, :] = ...
CoefficientRowsH(mats) ==
    [x \in 1..Len(mats) |-> CoefficientsH(mats[x])]

\* e0 * material.eqt2[y], material.eqt[y], material.zt[y]
PoleTriple(material, y) ==
    << <<"e0*eqt2", material.ID, y>>, <<"eqt", material.ID, y>>, <<"zt", material.ID, y>> >>

\* row[z:z+3] = values: the columns z, z+1, z+2 of a row are written.
WriteSlice(row, z, values) ==
    [c \in DOMAIN row |->
        IF z <= c /\ c < z + 3
        THEN [writes |-> row[c].writes + 1, value |-> values[c - z + 1]]
        ELSE row[c]]

\* Mutant: the next pole overlaps the last column of this one.
NextColumnOverlapping(z) == z + 2

\* z += 3
NextColumn(z) == z + 3

\* z = 0; for y in range(Material.maxpoles):
\*     G.updatecoeffsdispersive[x, z:z+3] = ...; z += 3
RECURSIVE FillPoles(_, _, _, _, _)
FillPoles(row, material, y, z, poles) ==
    IF y >= poles THEN row
    ELSE FillPoles(WriteSlice(row, z, PoleTriple(material, y)), material, y + 1,
                   NextColumn(z), poles)

\* A row of the zeroed table, then filled for one material.
DispersiveRow(material, poles) ==
    FillPoles([c \in 0..(3 * poles - 1) |-> [writes |-> 0, value |-> 0]], material, 0, 0, poles)

\* for x, material in enumerate(G.materials): if Material.maxpoles != 0: ...
DispersiveRows(mats, poles) ==
    [x \in 1..Len(mats) |-> DispersiveRow(mats[x], poles)]

\* A table of coefficients after its rows have been assigned.
Filled(array, rows) == [shape |-> array.shape, rows |-> rows]

\* Lines 301-335: the dispersive arrays when Material.maxpoles != 0, the
\* arrays of update coefficients, and one row per material in each.  run_model
\* calls initialise_std_updatecoeff_arrays and passes len(G.materials) to both
\* allocations; the class provides initialise_std_update_coeff_arrays and
\* takes the length from self.materials.
UpdateCoefficients ==
    /\ pc = "voltagesources"
    /\ vi > Len(voltagesources)
    /\ invoked' = invoked
                    \o (IF maxpoles # 0 THEN <<"initialise_dispersive_arrays">> ELSE <<>>)
                    \o <<"initialise_std_updatecoeff_arrays">>
    /\ LET allocated ==
               (IF maxpoles # 0
                THEN initialise_dispersive_arrays(Cells, maxpoles, Len(materials))
                ELSE <<>>)
               @@ initialise_std_update_coeff_arrays(Len(materials))
               @@ arrays
       IN arrays' =
             (IF maxpoles # 0
              THEN "updatecoeffsdispersive" :>
                      Filled(allocated["updatecoeffsdispersive"],
                             DispersiveRows(materials, maxpoles))
              ELSE <<>>)
             @@ ("updatecoeffsH" :>
                    Filled(allocated["updatecoeffsH"], CoefficientRowsH(materials)))
             @@ ("updatecoeffsE" :>
                    Filled(allocated["updatecoeffsE"], CoefficientRows(materials)))
             @@ allocated
    /\ updatecoeffsE' = CoefficientRows(materials)
    /\ pc' = "geometryviews"
    /\ UNCHANGED <<inp, outside, usernamespace, solid, maxpoles, modelrun, materials, ID, voltagesources, hertziandipoles, magneticdipoles, transmissionlines,
                   rxs, vi, geowritten, snapshots, f, abstime, timestep, fields, calls>>

\* Mutant: no geometry view is written.
WriteGeometryViewsSkipped ==
    /\ pc = "geometryviews"
    /\ pc' = "simulate"
    /\ UNCHANGED <<inp, outside, usernamespace, arrays, invoked, solid, maxpoles, modelrun, materials, ID,
                   voltagesources, hertziandipoles, magneticdipoles, transmissionlines, rxs, vi,
                   updatecoeffsE, geowritten, snapshots, f, abstime, timestep, fields, calls>>

\* for geometryview in G.geometryviews: geometryview.write_file(...)
WriteGeometryViews ==
    /\ pc = "geometryviews"
    /\ geowritten' = inp.geometryviews
    /\ pc' = "simulate"
    /\ UNCHANGED <<inp, outside, usernamespace, arrays, invoked, solid, maxpoles, modelrun, materials, ID, voltagesources, hertziandipoles, magneticdipoles, transmissionlines,
                   rxs, vi, updatecoeffsE, snapshots, f, abstime, timestep, fields, calls>>

\* if not args.geometry_only: ... else run_model returns.
GeometryOnlyReturn ==
    /\ pc = "simulate"
    /\ inp.geometry_only
    /\ Return
    /\ UNCHANGED <<inp, outside, usernamespace, arrays, invoked, solid, maxpoles, materials, ID, voltagesources, hertziandipoles, magneticdipoles, transmissionlines, rxs, vi,
                   updatecoeffsE, geowritten, snapshots, f, abstime, timestep, fields, calls>>

\* ------------------------------------------------------ simulation set-up
\* for snapshot in G.snapshots: snapshot.prepare_file(modelrun, numbermodelruns, G)
PrepareSnapshots ==
    /\ pc = "simulate"
    /\ ~inp.geometry_only
    /\ snapshots' = [i \in DOMAIN snapshots |-> [snapshots[i] EXCEPT !.prepared = TRUE]]
    /\ pc' = "outputfile"
    /\ UNCHANGED <<inp, outside, usernamespace, arrays, invoked, solid, maxpoles, modelrun, materials, ID, voltagesources, hertziandipoles, magneticdipoles, transmissionlines,
                   rxs, vi, updatecoeffsE, geowritten, f, abstime, timestep, fields, calls>>

Positions(objects) == [i \in DOMAIN objects |-> objects[i].position]

\* fields_output.prepare_output_file: creates the file with the model's
\* attributes, one group per source recording its position, and one dataset per
\* receiver of shape (iterations,).
prepare_output_file(outputfile, iterations, vs, hd, md, tl, rx) ==
    [state |-> "open", name |-> outputfile,
     srcpos |-> Positions(hd) \o Positions(md) \o Positions(vs) \o Positions(tl),
     rxpos |-> Positions(rx),
     samples |-> [n \in 1..iterations |-> [written |-> 0, value |-> <<>>]]]

\* outputfile = inputfileparts[0] + '.out' if numbermodelruns == 1 else
\* inputfileparts[0] + str(modelrun) + '.out' (0 stands for no number)
OutputFileName == IF inp.numbermodelruns = 1 THEN 0 ELSE modelrun

\* f = prepare_output_file(outputfile, G)
PrepareOutputFile ==
    /\ pc = "outputfile"
    /\ f' = prepare_output_file(OutputFileName, inp.iterations, voltagesources,
                                hertziandipoles, magneticdipoles, transmissionlines, rxs)
    /\ pc' = "adjust"
    /\ UNCHANGED <<inp, outside, usernamespace, arrays, invoked, solid, maxpoles, modelrun, materials, ID, voltagesources, hertziandipoles, magneticdipoles, transmissionlines,
                   rxs, vi, updatecoeffsE, geowritten, snapshots, abstime, timestep, fields, calls>>

\* position += (modelrun - 1) * step, on each axis
Move(objects, step) ==
    [i \in DOMAIN objects |->
        [objects[i] EXCEPT !.position = Displaced(@, modelrun, step)]]

AnyPositive(step) == step[1] > 0 \/ step[2] > 0 \/ step[3] > 0

\* The sources after: if G.srcstepx > 0 or G.srcstepy > 0 or G.srcstepz > 0: ...
AdjustSources(objects) ==
    IF AnyPositive(inp.srcstep) THEN Move(objects, inp.srcstep) ELSE objects

\* The receivers after: if G.rxstepx > 0 or G.rxstepy > 0 or G.rxstepz > 0: ...
AdjustReceivers(objects) ==
    IF AnyPositive(inp.rxstep) THEN Move(objects, inp.rxstep) ELSE objects

\* Adjust position of sources and receivers if required; abstime = 0.
AdjustPositions ==
    /\ pc = "adjust"
    /\ hertziandipoles' = AdjustSources(hertziandipoles)
    /\ magneticdipoles' = AdjustSources(magneticdipoles)
    /\ voltagesources' = AdjustSources(voltagesources)
    /\ rxs' = AdjustReceivers(rxs)
    /\ abstime' = 0
    /\ timestep' = 0
    /\ pc' = "loop"
    /\ UNCHANGED <<inp, outside, usernamespace, arrays, invoked, solid, maxpoles, modelrun, materials, ID, transmissionlines, vi, updatecoeffsE,
                   geowritten, snapshots, f, fields, calls>>

\* ---------------------------------------------------------- the time loop
\* A call of the time loop: the operation, the step it is made in, the source
\* it is made on (0: none) and the abstime and timestep arguments it is given
\* (NoArg: not given).
Call(op, src, t, ts) == [op |-> op, n |-> timestep, src |-> src, abstime |-> t, timestep |-> ts]

\* An update applied to the fields: the kernel or source, and the time it used.
Update(op, src, t) == [op |-> op, src |-> src, abstime |-> t]

Kernels(names) == [i \in DOMAIN names |-> Call(names[i], 0, NoArg, NoArg)]
KernelUpdates(names) == [i \in DOMAIN names |-> Update(names[i], 0, NoArg)]

\* v.update_fields(abstime, timestep, ...) for each source of a list, in order
SourceCalls(op, sources) == [i \in DOMAIN sources |-> Call(op, i, abstime, timestep)]
SourceUpdates(op, sources) == [i \in DOMAIN sources |-> Update(op, i, abstime)]

\* fields_output.write_output: stores the fields at the receivers as sample
\* `ts` of the receivers' datasets.
write_output(file, ts, flds) ==
    [file EXCEPT !.samples[ts + 1] = [written |-> @.written + 1, value |-> flds]]

\* Mutant: the output file is left open.
CloseOutputLeavesOpen ==
    /\ pc = "loop"
    /\ ~(timestep < inp.iterations)
    /\ Return
    /\ UNCHANGED <<inp, outside, usernamespace, arrays, invoked, solid, maxpoles, materials, ID, voltagesources,
                   hertziandipoles, magneticdipoles, transmissionlines, rxs, vi, updatecoeffsE,
                   geowritten, snapshots, f, abstime, timestep, fields, calls>>

\* Mutant: the loop runs one step too many.
LoopContinuesInclusive == timestep <= inp.iterations

\* for timestep in range(G.iterations): the loop takes another step.
LoopContinues == timestep < inp.iterations

\* for timestep in range(G.iterations): write_output(f, timestep, G.Ex, ..., G)
WriteOutput ==
    /\ pc = "loop"
    /\ LoopContinues
    /\ f' = write_output(f, timestep, fields)
    /\ calls' = Append(calls, Call("write_output", 0, NoArg, timestep))
    /\ pc' = "snapshots"
    /\ UNCHANGED <<inp, outside, usernamespace, arrays, invoked, solid, maxpoles, modelrun, materials, ID, voltagesources, hertziandipoles, magneticdipoles, transmissionlines,
                   rxs, vi, updatecoeffsE, geowritten, snapshots, abstime, timestep, fields>>

\* Mutant: a snapshot is written in the step of its own number.
SnapshotDueSameStep(snapshot) == snapshot.time = timestep

\* The snapshots written in this step: those with snapshot.time == timestep + 1.
SnapshotDue(snapshot) == snapshot.time = timestep + 1

\* Their indices, in the order of G.snapshots.
DueSnapshots ==
    SelectSeq([i \in DOMAIN snapshots |-> i], LAMBDA i : SnapshotDue(snapshots[i]))

\* for snapshot in G.snapshots: if snapshot.time == timestep + 1: write_snapshot
WriteSnapshots ==
    /\ pc = "snapshots"
    /\ snapshots' = [i \in DOMAIN snapshots |->
                        IF SnapshotDue(snapshots[i])
                        THEN [snapshots[i] EXCEPT !.written = @ + 1, !.data = fields]
                        ELSE snapshots[i]]
    /\ calls' = calls \o [k \in DOMAIN DueSnapshots |->
                            Call("write_snapshot", DueSnapshots[k], NoArg, NoArg)]
    /\ pc' = "electricA"
    /\ UNCHANGED <<inp, outside, usernamespace, arrays, invoked, solid, maxpoles, modelrun, materials, ID, voltagesources, hertziandipoles, magneticdipoles, transmissionlines,
                   rxs, vi, updatecoeffsE, geowritten, f, abstime, timestep, fields>>

\* The E-update kernels of pass A for a pole count.
ElectricKernelsA(poles) ==
    IF poles = 1
    THEN <<"update_ex_dispersive_1pole_A", "update_ey_dispersive_1pole_A", "update_ez_dispersive_1pole_A">>
    ELSE IF poles > 1
    THEN <<"update_ex_dispersive_multipole_A", "update_ey_dispersive_multipole_A", "update_ez_dispersive_multipole_A">>
    ELSE <<"update_ex", "update_ey", "update_ez">>

\* Mutant: pass B takes the one-pole kernels for every dispersive model.
ElectricKernelsBOnePole(poles) ==
    IF poles >= 1
    THEN <<"update_ex_dispersive_1pole_B", "update_ey_dispersive_1pole_B", "update_ez_dispersive_1pole_B">>
    ELSE <<>>

\* The E-update kernels of pass B for a pole count.
ElectricKernelsB(poles) ==
    IF poles = 1
    THEN <<"update_ex_dispersive_1pole_B", "update_ey_dispersive_1pole_B", "update_ez_dispersive_1pole_B">>
    ELSE IF poles > 1
    THEN <<"update_ex_dispersive_multipole_B", "update_ey_dispersive_multipole_B", "update_ez_dispersive_multipole_B">>
    ELSE <<>>

MagneticKernels == <<"update_hx", "update_hy", "update_hz">>

\* Mutant: abstime advances by a whole dt.
AdvanceAbstimeWhole(t) == t + 2

\* abstime += 0.5 * G.dt
AdvanceAbstime(t) == t + 1

\* What a step of the time loop leaves alone besides pc, fields and calls.
LoopFrame ==
    UNCHANGED <<inp, outside, usernamespace, arrays, invoked, solid, maxpoles, modelrun, materials, ID, voltagesources, hertziandipoles,
                magneticdipoles, transmissionlines, rxs, vi, updatecoeffsE, geowritten, snapshots, f, timestep>>

\* Update electric field components (first part of the dispersive update).
ElectricUpdateA ==
    /\ pc = "electricA"
    /\ fields' = fields \o KernelUpdates(ElectricKernelsA(maxpoles))
    /\ calls' = calls \o Kernels(ElectricKernelsA(maxpoles))
    /\ pc' = "pmlelectric"
    /\ UNCHANGED abstime
    /\ LoopFrame

\* update_pml_electric(G)
PMLElectric ==
    /\ pc = "pmlelectric"
    /\ fields' = Append(fields, Update("update_pml_electric", 0, NoArg))
    /\ calls' = Append(calls, Call("update_pml_electric", 0, NoArg, NoArg))
    /\ pc' = "voltagesources_update"
    /\ UNCHANGED abstime
    /\ LoopFrame

\* Mutant: the Hertzian dipoles are applied before the voltage sources.
VoltageSourcesAfterDipoles ==
    /\ pc = "voltagesources_update"
    /\ fields' = fields \o SourceUpdates("hertziandipole", hertziandipoles)
                        \o SourceUpdates("voltagesource", voltagesources)
    /\ calls' = calls \o SourceCalls("hertziandipole", hertziandipoles)
                      \o SourceCalls("voltagesource", voltagesources)
    /\ pc' = "electricB"
    /\ UNCHANGED abstime
    /\ LoopFrame

\* for v in G.voltagesources: v.update_fields(abstime, timestep, ...)
VoltageSourcesUpdate ==
    /\ pc = "voltagesources_update"
    /\ fields' = fields \o SourceUpdates("voltagesource", voltagesources)
    /\ calls' = calls \o SourceCalls("voltagesource", voltagesources)
    /\ pc' = "hertziandipoles_update"
    /\ UNCHANGED abstime
    /\ LoopFrame

\* for h in G.hertziandipoles: h.update_fields(abstime, timestep, ...)
HertzianDipolesUpdate ==
    /\ pc = "hertziandipoles_update"
    /\ fields' = fields \o SourceUpdates("hertziandipole", hertziandipoles)
    /\ calls' = calls \o SourceCalls("hertziandipole", hertziandipoles)
    /\ pc' = "electricB"
    /\ UNCHANGED abstime
    /\ LoopFrame

\* Second part of the dispersive update, then abstime += 0.5 * G.dt.
ElectricUpdateB ==
    /\ pc = "electricB"
    /\ fields' = fields \o KernelUpdates(ElectricKernelsB(maxpoles))
    /\ calls' = calls \o Kernels(ElectricKernelsB(maxpoles))
    /\ abstime' = AdvanceAbstime(abstime)
    /\ pc' = "magnetic"
    /\ LoopFrame

\* Update magnetic field components.
MagneticUpdate ==
    /\ pc = "magnetic"
    /\ fields' = fields \o KernelUpdates(MagneticKernels)
    /\ calls' = calls \o Kernels(MagneticKernels)
    /\ pc' = "pmlmagnetic"
    /\ UNCHANGED abstime
    /\ LoopFrame

\* Mutant: the magnetic sources are applied before the PML correction.
PMLMagneticAfterSources ==
    /\ pc = "pmlmagnetic"
    /\ fields' = Append(fields \o SourceUpdates("magneticdipole", magneticdipoles),
                        Update("update_pml_magnetic", 0, NoArg))
    /\ calls' = Append(calls \o SourceCalls("magneticdipole", magneticdipoles),
                       Call("update_pml_magnetic", 0, NoArg, NoArg))
    /\ abstime' = AdvanceAbstime(abstime)
    /\ timestep' = timestep + 1
    /\ pc' = "loop"
    /\ UNCHANGED <<inp, outside, usernamespace, arrays, invoked, solid, maxpoles, modelrun, materials, ID, voltagesources, hertziandipoles,
                   magneticdipoles, transmissionlines, rxs, vi, updatecoeffsE, geowritten, snapshots, f>>

\* update_pml_magnetic(G)
PMLMagnetic ==
    /\ pc = "pmlmagnetic"
    /\ fields' = Append(fields, Update("update_pml_magnetic", 0, NoArg))
    /\ calls' = Append(calls, Call("update_pml_magnetic", 0, NoArg, NoArg))
    /\ pc' = "magneticdipoles_update"
    /\ UNCHANGED abstime
    /\ LoopFrame

\* for m in G.magneticdipoles: m.update_fields(abstime, timestep, ...); then
\* abstime += 0.5 * G.dt and the loop takes the next timestep.
MagneticDipolesUpdate ==
    /\ pc = "magneticdipoles_update"
    /\ fields' = fields \o SourceUpdates("magneticdipole", magneticdipoles)
    /\ calls' = calls \o SourceCalls("magneticdipole", magneticdipoles)
    /\ abstime' = AdvanceAbstime(abstime)
    /\ timestep' = timestep + 1
    /\ pc' = "loop"
    /\ UNCHANGED <<inp, outside, usernamespace, arrays, invoked, solid, maxpoles, modelrun, materials, ID, voltagesources, hertziandipoles,
                   magneticdipoles, transmissionlines, rxs, vi, updatecoeffsE, geowritten, snapshots, f>>

\* After the loop: f.close(); run_model returns.
CloseOutput ==
    /\ pc = "loop"
    /\ ~LoopContinues
    /\ f' = [f EXCEPT !.state = "closed"]
    /\ Return
    /\ UNCHANGED <<inp, outside, usernamespace, arrays, invoked, solid, maxpoles, materials, ID, voltagesources, hertziandipoles, magneticdipoles, transmissionlines,
                   rxs, vi, updatecoeffsE, geowritten, snapshots, abstime, timestep, fields, calls>>

RunNext ==
    \/ MainNextRun
    \/ InitialiseGrid
    \/ BuildGrid
    \/ VoltageSourceMaterial
    \/ UpdateCoefficients
    \/ WriteGeometryViews
    \/ GeometryOnlyReturn
    \/ PrepareSnapshots
    \/ PrepareOutputFile
    \/ AdjustPositions
    \/ WriteOutput
    \/ WriteSnapshots
    \/ ElectricUpdateA
    \/ PMLElectric
    \/ VoltageSourcesUpdate
    \/ HertzianDipolesUpdate
    \/ ElectricUpdateB
    \/ MagneticUpdate
    \/ PMLMagnetic
    \/ MagneticDipolesUpdate
    \/ CloseOutput

Next == RunNext

Spec == Init /\ [][Next]_vars

\* ------------------------------------------- runs under adverse conditions
\* Inputs of a B-scan whose positions start inside the grid, at the origin or
\* at the upper corner, with steps that can take them across a face.
UpperCorner == <<Cells.nx, Cells.ny, Cells.nz>>
AdverseSteps == {NoStep, <<1, 0, 0>>, <<1, -1, 0>>}

InputsAdverse ==
    {[DefaultInput EXCEPT
        !.numbermodelruns = n, !.srcstep = st, !.rxstep = st,
        !.geometry_only = go, !.geometryviews = IF go THEN 1 ELSE 0,
        !.voltagesources = <<[polarisation |-> "x", position |-> p, resistance |-> r]>>,
        !.hertziandipoles = <<Dipole(p)>>,
        !.magneticdipoles = <<Dipole(p)>>,
        !.transmissionlines = [k \in 1..nt |-> TransmissionLine(p)],
        !.rxs = <<Receiver(p)>>] :
        n \in 1..MaxRuns, st \in AdverseSteps, p \in {Origin, UpperCorner}, r \in {0, MaxR},
        nt \in 0..1, go \in BOOLEAN}

\* The caller asks for the run to be cancelled.  run_model has no parameter, and
\* the time loop no test, that could carry the request to the stepper.
RequestCancel ==
    /\ ~cancel
    /\ pc \notin {"main", "raised"}
    /\ cancel' = TRUE
    /\ UNCHANGED <<runvars, gridvars, farmvars, taguchivars>>

\* f = prepare_output_file(outputfile, G) cannot create the file and raises;
\* neither run_model nor the loop of main that calls it handles an exception,
\* so main ends with it.
RunModelRaises ==
    /\ pc = "outputfile"
    /\ pc' = "raised"
    /\ UNCHANGED <<inp, outside, usernamespace, arrays, invoked, solid, maxpoles, modelrun, materials, ID,
                   voltagesources, hertziandipoles, magneticdipoles, transmissionlines, rxs, vi,
                   updatecoeffsE, geowritten, snapshots, f, abstime, timestep, fields, calls>>

FaultInit ==
    /\ inp \in InputsAdverse
    /\ MainInitial
    /\ RunInitial
    /\ GridIdle
    /\ FarmIdle
    /\ TaguchiIdle

FaultNext ==
    \/ RunNext
    \/ RequestCancel
    \/ RunModelRaises

FaultSpec == FaultInit /\ [][FaultNext]_vars

\* ------------------------------------------------- the functions of grid.py
\* Grid sizes the functions are applied to.
MaxN == 2
MaxH == 1

Grids ==
    {[nx |-> MaxN, ny |-> MaxN, nz |-> MaxN, dx |-> 1, dy |-> 2, dz |-> 3],
     [nx |-> MaxN, ny |-> 1, nz |-> MaxN + 1, dx |-> 3, dy |-> 1, dz |-> 2]}

Axes == <<"x", "y", "z">>

\* getattr(self, 'n' + co)
NumberOfCells(g, co) ==
    CASE co = "x" -> g.nx [] co = "y" -> g.ny [] co = "z" -> g.nz

\* Mutant: the upper bound itself is refused.
within_bounds_exclusive(g, kw) ==
    IF \E i \in DOMAIN kw : kw[i][2] < 0 \/ kw[i][2] >= NumberOfCells(g, kw[i][1])
    THEN LET i == CHOOSE i \in DOMAIN kw :
                     /\ kw[i][2] < 0 \/ kw[i][2] >= NumberOfCells(g, kw[i][1])
                     /\ \A j \in 1..(i - 1) :
                           ~(kw[j][2] < 0 \/ kw[j][2] >= NumberOfCells(g, kw[j][1]))
         IN Raises("ValueError", kw[i][1])
    ELSE Returns("None")

\* Grid.within_bounds(**kwargs): kw is the keyword arguments <<co, val>> in the
\* order of the call; the first one out of range raises ValueError(co).
within_bounds(g, kw) ==
    IF \E i \in DOMAIN kw : kw[i][2] < 0 \/ kw[i][2] > NumberOfCells(g, kw[i][1])
    THEN LET i == CHOOSE i \in DOMAIN kw :
                     /\ kw[i][2] < 0 \/ kw[i][2] > NumberOfCells(g, kw[i][1])
                     /\ \A j \in 1..(i - 1) :
                           ~(kw[j][2] < 0 \/ kw[j][2] > NumberOfCells(g, kw[j][1]))
         IN Raises("ValueError", kw[i][1])
    ELSE Returns("None")

\* The index sets of the arrays Hx, Hy, Hz of a grid (initialise_field_arrays).
IndexSet(shape) == (0..(shape[1] - 1)) \X (0..(shape[2] - 1)) \X (0..(shape[3] - 1))
ShapeOfH(g) == [c \in {"Hx", "Hy", "Hz"} |-> initialise_field_arrays(g)[c].shape]

\* A[i, j, k] of a numpy array: an index i in -n .. -1 counts from the end.
Wrap(i, n) == IF i < 0 THEN i + n ELSE i
InRange(shape, idx) == \A a \in 1..3 : -shape[a] <= idx[a] /\ idx[a] < shape[a]
At(A, shape, idx) == A[<<Wrap(idx[1], shape[1]), Wrap(idx[2], shape[2]), Wrap(idx[3], shape[3])>>]

\* Mutant: zero only where both transverse coordinates are zero.
IxCornerOnly(x, y, z, Hy, Hz, g) ==
    LET sy == ShapeOfH(g)["Hy"]
        sz == ShapeOfH(g)["Hz"]
    IN IF y = 0 /\ z = 0 THEN Returns(0)
       ELSE IF \A r \in {<<sy, <<x, y, z - 1>>>>, <<sy, <<x, y, z>>>>,
                          <<sz, <<x, y, z>>>>, <<sz, <<x, y - 1, z>>>>} : InRange(r[1], r[2])
       THEN Returns(g.dy * (At(Hy, sy, <<x, y, z - 1>>) - At(Hy, sy, <<x, y, z>>))
            + g.dz * (At(Hz, sz, <<x, y, z>>) - At(Hz, sz, <<x, y - 1, z>>)))
       ELSE Raises("IndexError", 0)

\* Ix(x, y, z, Hy, Hz, G)
Ix(x, y, z, Hy, Hz, g) ==
    LET sy == ShapeOfH(g)["Hy"]
        sz == ShapeOfH(g)["Hz"]
    IN IF y = 0 \/ z = 0 THEN Returns(0)
       ELSE IF \A r \in {<<sy, <<x, y, z - 1>>>>, <<sy, <<x, y, z>>>>,
                          <<sz, <<x, y, z>>>>, <<sz, <<x, y - 1, z>>>>} : InRange(r[1], r[2])
       THEN Returns(g.dy * (At(Hy, sy, <<x, y, z - 1>>) - At(Hy, sy, <<x, y, z>>))
            + g.dz * (At(Hz, sz, <<x, y, z>>) - At(Hz, sz, <<x, y - 1, z>>)))
       ELSE Raises("IndexError", 0)

\* Iy(x, y, z, Hx, Hz, G)
Iy(x, y, z, Hx, Hz, g) ==
    LET sx == ShapeOfH(g)["Hx"]
        sz == ShapeOfH(g)["Hz"]
    IN IF x = 0 \/ z = 0 THEN Returns(0)
       ELSE IF \A r \in {<<sx, <<x, y, z>>>>, <<sx, <<x, y, z - 1>>>>,
                          <<sz, <<x - 1, y, z>>>>, <<sz, <<x, y, z>>>>} : InRange(r[1], r[2])
       THEN Returns(g.dx * (At(Hx, sx, <<x, y, z>>) - At(Hx, sx, <<x, y, z - 1>>))
            + g.dz * (At(Hz, sz, <<x - 1, y, z>>) - At(Hz, sz, <<x, y, z>>)))
       ELSE Raises("IndexError", 0)

\* Mutant: the loop around the z face runs the other way.
IzReversed(x, y, z, Hx, Hy, g) ==
    LET sx == ShapeOfH(g)["Hx"]
        sy == ShapeOfH(g)["Hy"]
    IN IF x = 0 \/ y = 0 THEN Returns(0)
       ELSE IF \A r \in {<<sx, <<x, y - 1, z>>>>, <<sx, <<x, y, z>>>>,
                          <<sy, <<x, y, z>>>>, <<sy, <<x - 1, y, z>>>>} : InRange(r[1], r[2])
       THEN Returns(g.dx * (At(Hx, sx, <<x, y, z>>) - At(Hx, sx, <<x, y - 1, z>>))
            + g.dy * (At(Hy, sy, <<x - 1, y, z>>) - At(Hy, sy, <<x, y, z>>)))
       ELSE Raises("IndexError", 0)

\* Iz(x, y, z, Hx, Hy, G)
Iz(x, y, z, Hx, Hy, g) ==
    LET sx == ShapeOfH(g)["Hx"]
        sy == ShapeOfH(g)["Hy"]
    IN IF x = 0 \/ y = 0 THEN Returns(0)
       ELSE IF \A r \in {<<sx, <<x, y - 1, z>>>>, <<sx, <<x, y, z>>>>,
                          <<sy, <<x, y, z>>>>, <<sy, <<x - 1, y, z>>>>} : InRange(r[1], r[2])
       THEN Returns(g.dx * (At(Hx, sx, <<x, y - 1, z>>) - At(Hx, sx, <<x, y, z>>))
            + g.dy * (At(Hy, sy, <<x, y, z>>) - At(Hy, sy, <<x - 1, y, z>>)))
       ELSE Raises("IndexError", 0)

\* Field arrays the currents are evaluated on: uniform ones, ones with a single
\* non-zero element, and ones whose elements all differ.
HNames == {"Hx", "Hy", "Hz"}
HValues == (-MaxH)..MaxH

Uniform(g, v) == [c \in HNames |-> [idx \in IndexSet(ShapeOfH(g)[c]) |-> v]]

Spike(g, c0, idx0, v) ==
    [c \in HNames |-> [idx \in IndexSet(ShapeOfH(g)[c]) |-> IF c = c0 /\ idx = idx0 THEN v ELSE 0]]

Ramp(g, k) ==
    [c \in HNames |->
        [idx \in IndexSet(ShapeOfH(g)[c]) |->
            CASE c = "Hx" -> k + idx[1] + 3 * idx[2] + 9 * idx[3]
              [] c = "Hy" -> 2 * k - 5 * idx[1] + idx[2] * idx[2] + 7 * idx[3]
              [] c = "Hz" -> 11 * idx[1] - 2 * idx[2] - k * idx[3] * idx[3]]]

SmoothFields(g) ==
    {Uniform(g, v) : v \in HValues} \cup {Ramp(g, k) : k \in 1..MaxH}

FieldArrays(g) ==
    SmoothFields(g)
    \cup UNION {{Spike(g, c, idx, v) : idx \in IndexSet(ShapeOfH(g)[c]), v \in HValues \ {0}} :
                c \in HNames}

GridPositions(g) == (0..g.nx) \X (0..g.ny) \X (0..g.nz)

\* Keyword arguments: some of x, y, z, each once, in any order, with values
\* from below zero to above the largest size.
Coordinates == (-1)..(MaxN + 2)
KeywordArguments ==
    {kw \in SeqsUpTo({"x", "y", "z"} \X Coordinates, 3) :
        \A i, j \in DOMAIN kw : i # j => kw[i][1] # kw[j][1]}

GridInit ==
    /\ inp = DefaultInput
    /\ MainInitial
    /\ RunInitial
    /\ FarmIdle
    /\ TaguchiIdle
    /\ grid \in Grids
    /\ fn = "none"
    /\ kwargs = <<>>
    /\ position = Origin
    /\ H = <<>>
    /\ result = Returns("None")

\* G.within_bounds(**kwargs)
CallWithinBounds ==
    /\ fn = "none"
    /\ \E kw \in KeywordArguments :
          /\ kwargs' = kw
          /\ result' = within_bounds(grid, kw)
    /\ fn' = "within_bounds"
    /\ UNCHANGED <<runvars, farmvars, taguchivars, cancel, grid, position, H>>

\* Ix(x, y, z, G.Hy, G.Hz, G)
CallIx ==
    /\ fn = "none"
    /\ \E p \in GridPositions(grid), h \in FieldArrays(grid) :
          /\ position' = p
          /\ H' = h
          /\ result' = Ix(p[1], p[2], p[3], h["Hy"], h["Hz"], grid)
    /\ fn' = "Ix"
    /\ UNCHANGED <<runvars, farmvars, taguchivars, cancel, grid, kwargs>>

\* Iy(x, y, z, G.Hx, G.Hz, G)
CallIy ==
    /\ fn = "none"
    /\ \E p \in GridPositions(grid), h \in FieldArrays(grid) :
          /\ position' = p
          /\ H' = h
          /\ result' = Iy(p[1], p[2], p[3], h["Hx"], h["Hz"], grid)
    /\ fn' = "Iy"
    /\ UNCHANGED <<runvars, farmvars, taguchivars, cancel, grid, kwargs>>

\* Iz(x, y, z, G.Hx, G.Hy, G)
CallIz ==
    /\ fn = "none"
    /\ \E p \in GridPositions(grid), h \in FieldArrays(grid) :
          /\ position' = p
          /\ H' = h
          /\ result' = Iz(p[1], p[2], p[3], h["Hx"], h["Hy"], grid)
    /\ fn' = "Iz"
    /\ UNCHANGED <<runvars, farmvars, taguchivars, cancel, grid, kwargs>>

GridNext ==
    \/ CallWithinBounds
    \/ CallIx
    \/ CallIy
    \/ CallIz

GridSpec == GridInit /\ [][GridNext]_vars

\* ------------------------------------------------ the task farm of mpi_runs
\* Every MPI process runs main and, with -mpi, mpi_runs: rank 0 as the master,
\* every other rank as a worker.  A message sent is in flight until the process
\* it is addressed to receives it; between one sender and one receiver messages
\* are received in the order they were sent.
MaxWorkers == 2

\* tags = Enum('tags', {'READY': 0, 'DONE': 1, 'EXIT': 2, 'START': 3})
tags == [READY |-> 0, DONE |-> 1, EXIT |-> 2, START |-> 3]

\* The data of a message sent as comm.send(None, ...).
None == 0

\* The ranks of the workers: 1 .. size - 1.
Workers == 1..(size - 1)

\* comm.send(data, dest=dest, tag=tag) by rank src
Send(ch, src, dest, data, tag) ==
    [ch EXCEPT ![<<src, dest>>] = Append(@, [tag |-> tag, data |-> data])]

\* comm.recv by rank dest can return the oldest message of src, and its tag is `tag`
Pending(src, dest, tag) ==
    /\ channel[<<src, dest>>] # <<>>
    /\ Head(channel[<<src, dest>>]).tag = tag

\* the messages in flight after that message is received
Received(src, dest) == [channel EXCEPT ![<<src, dest>>] = Tail(@)]

\* What no step of mpi_runs assigns.
FarmFrame == UNCHANGED <<runvars, gridvars, taguchivars, cancel, size>>

\* mpirun starts `size` processes on the same command line: -mpi and -n.
FarmInit ==
    /\ inp \in {[DefaultInput EXCEPT !.mpi = TRUE, !.numbermodelruns = n] : n \in 1..MaxRuns}
    /\ MainInitial
    /\ RunInitial
    /\ GridIdle
    /\ TaguchiIdle
    /\ size \in 1..(MaxWorkers + 1)
    /\ master = [pc |-> "main", modelrun |-> 0, closedworkers |-> 0]
    /\ workers = [w \in Workers |-> [pc |-> "main", modelrun |-> 0]]
    /\ channel = [p \in ({0} \X Workers) \cup (Workers \X {0}) |-> <<>>]
    /\ started = <<>>
    /\ completed = <<>>
    /\ donereceived = 0

\* main, standard routine: -mpi with a single model run is refused.
Refused == inp.mpi /\ inp.numbermodelruns = 1

\* Rank 0: main calls mpi_runs; modelrun = 1, closedworkers = 0.
MasterEnter ==
    /\ master.pc = "main"
    /\ master' = IF Refused
                 THEN [master EXCEPT !.pc = "raised"]
                 ELSE [pc |-> "loop", modelrun |-> 1, closedworkers |-> 0]
    /\ UNCHANGED <<workers, channel, started, completed, donereceived>>
    /\ FarmFrame

\* Mutant: the master's loop waits for one worker more than there are.
MasterLoopContinuesInclusive(closedworkers, numworkers) == closedworkers <= numworkers

\* while closedworkers < numworkers:
MasterLoopContinues(closedworkers, numworkers) == closedworkers < numworkers

\* Mutant: the master hands out one model number more.
HasWorkInclusive(next, numbermodelruns) == next <= numbermodelruns + 1

\* if modelrun < numbermodelruns + 1:
HasWork(next, numbermodelruns) == next < numbermodelruns + 1

\* The master receives READY from `source` and replies with the next model
\* number and START, or with EXIT when there is none left.
MasterReady(source) ==
    /\ master.pc = "loop"
    /\ MasterLoopContinues(master.closedworkers, size - 1)
    /\ Pending(source, 0, tags.READY)
    /\ IF HasWork(master.modelrun, inp.numbermodelruns)
       THEN /\ channel' = Send(Received(source, 0), 0, source, master.modelrun, tags.START)
            /\ started' = Append(started, [modelrun |-> master.modelrun, dest |-> source])
            /\ master' = [master EXCEPT !.modelrun = @ + 1]
       ELSE /\ channel' = Send(Received(source, 0), 0, source, None, tags.EXIT)
            /\ UNCHANGED <<started, master>>
    /\ UNCHANGED <<workers, completed, donereceived>>
    /\ FarmFrame

\* The master receives DONE from `source`.
MasterDone(source) ==
    /\ master.pc = "loop"
    /\ MasterLoopContinues(master.closedworkers, size - 1)
    /\ Pending(source, 0, tags.DONE)
    /\ channel' = Received(source, 0)
    /\ donereceived' = donereceived + 1
    /\ UNCHANGED <<master, workers, started, completed>>
    /\ FarmFrame

\* The master receives EXIT from `source`: closedworkers += 1.
MasterExit(source) ==
    /\ master.pc = "loop"
    /\ MasterLoopContinues(master.closedworkers, size - 1)
    /\ Pending(source, 0, tags.EXIT)
    /\ channel' = Received(source, 0)
    /\ master' = [master EXCEPT !.closedworkers = @ + 1]
    /\ UNCHANGED <<workers, started, completed, donereceived>>
    /\ FarmFrame

\* The master's loop ends and mpi_runs returns on rank 0.
MasterReturn ==
    /\ master.pc = "loop"
    /\ ~MasterLoopContinues(master.closedworkers, size - 1)
    /\ master' = [master EXCEPT !.pc = "returned"]
    /\ UNCHANGED <<workers, channel, started, completed, donereceived>>
    /\ FarmFrame

\* Rank w > 0: main calls mpi_runs, which enters the worker's loop.
WorkerEnter(w) ==
    /\ workers[w].pc = "main"
    /\ workers' = [workers EXCEPT ![w].pc = IF Refused THEN "raised" ELSE "ready"]
    /\ UNCHANGED <<master, channel, started, completed, donereceived>>
    /\ FarmFrame

\* comm.send(None, dest=0, tag=tags.READY.value)
WorkerSendReady(w) ==
    /\ workers[w].pc = "ready"
    /\ channel' = Send(channel, w, 0, None, tags.READY)
    /\ workers' = [workers EXCEPT ![w].pc = "recv"]
    /\ UNCHANGED <<master, started, completed, donereceived>>
    /\ FarmFrame

\* modelrun = comm.recv(source=0, tag=MPI.ANY_TAG, status=status) with START
WorkerStart(w) ==
    /\ workers[w].pc = "recv"
    /\ Pending(0, w, tags.START)
    /\ workers' = [workers EXCEPT ![w] = [pc |-> "run", modelrun |-> Head(channel[<<0, w>>]).data]]
    /\ channel' = Received(0, w)
    /\ UNCHANGED <<master, started, completed, donereceived>>
    /\ FarmFrame

\* run_model(args, modelrun, numbermodelruns, inputfile, usernamespace) returns
WorkerRunModel(w) ==
    /\ workers[w].pc = "run"
    /\ completed' = Append(completed, [modelrun |-> workers[w].modelrun, rank |-> w])
    /\ workers' = [workers EXCEPT ![w].pc = "done"]
    /\ UNCHANGED <<master, channel, started, donereceived>>
    /\ FarmFrame

\* comm.send(None, dest=0, tag=tags.DONE.value); the loop takes its next turn
WorkerSendDone(w) ==
    /\ workers[w].pc = "done"
    /\ channel' = Send(channel, w, 0, None, tags.DONE)
    /\ workers' = [workers EXCEPT ![w].pc = "ready"]
    /\ UNCHANGED <<master, started, completed, donereceived>>
    /\ FarmFrame

\* The worker receives EXIT: break
WorkerBreak(w) ==
    /\ workers[w].pc = "recv"
    /\ Pending(0, w, tags.EXIT)
    /\ workers' = [workers EXCEPT ![w] = [pc |-> "break", modelrun |-> Head(channel[<<0, w>>]).data]]
    /\ channel' = Received(0, w)
    /\ UNCHANGED <<master, started, completed, donereceived>>
    /\ FarmFrame

\* comm.send(None, dest=0, tag=tags.EXIT.value); mpi_runs returns on rank w
WorkerSendExit(w) ==
    /\ workers[w].pc = "break"
    /\ channel' = Send(channel, w, 0, None, tags.EXIT)
    /\ workers' = [workers EXCEPT ![w].pc = "returned"]
    /\ UNCHANGED <<master, started, completed, donereceived>>
    /\ FarmFrame

\* A step of rank 0.
MasterStep ==
    \/ MasterEnter
    \/ \E source \in Workers : MasterReady(source)
    \/ \E source \in Workers : MasterDone(source)
    \/ \E source \in Workers : MasterExit(source)
    \/ MasterReturn

\* A step of rank w.
WorkerStep(w) ==
    \/ WorkerEnter(w)
    \/ WorkerSendReady(w)
    \/ WorkerStart(w)
    \/ WorkerRunModel(w)
    \/ WorkerSendDone(w)
    \/ WorkerBreak(w)
    \/ WorkerSendExit(w)

FarmNext ==
    \/ MasterEnter
    \/ \E source \in Workers : MasterReady(source)
    \/ \E source \in Workers : MasterDone(source)
    \/ \E source \in Workers : MasterExit(source)
    \/ MasterReturn
    \/ \E w \in Workers : WorkerEnter(w)
    \/ \E w \in Workers : WorkerSendReady(w)
    \/ \E w \in Workers : WorkerStart(w)
    \/ \E w \in Workers : WorkerRunModel(w)
    \/ \E w \in Workers : WorkerSendDone(w)
    \/ \E w \in Workers : WorkerBreak(w)
    \/ \E w \in Workers : WorkerSendExit(w)

FarmSpec == FarmInit /\ [][FarmNext]_vars

\* Every process that can take a step eventually takes one: each rank is a
\* process of its own, and a receive returns once a message for it is in flight.
FairFarmSpec ==
    /\ FarmSpec
    /\ WF_vars(MasterStep)
    /\ \A w \in 1..MaxWorkers : WF_vars(w \in Workers /\ WorkerStep(w))

\* ------------------------------------------- the Taguchi routine of main
\* main with --opt-taguchi, as rank 0 sees it.  The functions of
\* user_libs.optimisations.taguchi are taken by what main does with their
\* results: select_OA gives the number of experiments N, and
\* calculate_ranges_experiments gives every parameter one value per experiment.
\* A value is written as the parameter, the iteration and the experiment it is
\* for.  A run_model call is taken by the namespace it is handed and the output
\* file it writes.
MaxExperiments == 3

\* maxiterations = 2
maxiterations == 2

\* optparams['rickeramp'], and optparams['sig'] of the line commented out
ParameterNames == <<"rickeramp", "sig">>
Keys(k) == {ParameterNames[j] : j \in 1..k}

\* list[index] of Python
PyIndex(list, index) == list[index + 1]

Value(key, i, e) == [key |-> key, i |-> i, e |-> e]

\* optparams as calculate_ranges_experiments returns it in iteration i
calculate_ranges_experiments(k, N, i) ==
    [key \in Keys(k) |-> [e \in 1..N |-> Value(key, i, e)]]

\* optparams as calculate_optimal_levels returns it in iteration i: one value,
\* the optimal one, per parameter (0 stands for the optimum)
calculate_optimal_levels(k, i) ==
    [key \in Keys(k) |-> <<Value(key, i, 0)>>]

\* run_model, lines 353-358: the name of the output file (0: no number)
OutputFile(run, runs) == IF runs = 1 THEN 0 ELSE run

\* run_model(args, run, runs, inputfile, namespace): line 219 adds the current
\* model run to the namespace it is handed; the run writes its output file.
run_model(kind, i, run, runs, namespace) ==
    [kind |-> kind, i |-> i, modelrun |-> run, numbermodelruns |-> runs,
     namespace |-> ("current_model_run" :> run) @@ namespace,
     outputfile |-> OutputFile(run, runs)]

\* optnamespace = usernamespace.copy();
\* optnamespace.update((key, value[modelrun - 1]) for key, value in optparams.items())
optnamespace(namespace, params, run) ==
    [key \in DOMAIN params |-> PyIndex(params[key], run - 1)] @@ namespace

TaguchiFrame == UNCHANGED <<inp, runstate, gridvars, farmvars, cancel>>

TaguchiInit ==
    /\ inp \in {[DefaultInput EXCEPT !.opt_taguchi = TRUE, !.mpi = m] : m \in BOOLEAN}
    /\ MainInitial
    /\ RunInitial
    /\ GridIdle
    /\ FarmIdle
    /\ \E N \in 2..MaxExperiments, k \in 1..Len(ParameterNames) :
          /\ taguchi = [pc |-> "loop", i |-> 0, modelrun |-> 0, numbermodelruns |-> inp.numbermodelruns,
                        N |-> N, k |-> k]
          /\ optparams = [key \in Keys(k) |-> <<Value(key, -1, 1), Value(key, -1, 2)>>]
    /\ experiments = <<>>
    /\ files = <<>>
    /\ fitness = <<>>

\* while i < maxiterations: numbermodelruns = N;
\* usernamespace['number_model_runs'] = numbermodelruns; calculate_ranges_experiments
TaguchiRanges ==
    /\ taguchi.pc = "loop"
    /\ taguchi.i < maxiterations
    /\ usernamespace' = [usernamespace EXCEPT !.number_model_runs = taguchi.N]
    /\ optparams' = calculate_ranges_experiments(taguchi.k, taguchi.N, taguchi.i)
    /\ taguchi' = [taguchi EXCEPT !.pc = "experiments", !.numbermodelruns = taguchi.N, !.modelrun = 1]
    /\ UNCHANGED <<experiments, files, fitness>>
    /\ TaguchiFrame

\* The loop ends after maxiterations iterations.
TaguchiEnd ==
    /\ taguchi.pc = "loop"
    /\ ~(taguchi.i < maxiterations)
    /\ taguchi' = [taguchi EXCEPT !.pc = "returned"]
    /\ UNCHANGED <<usernamespace, optparams, experiments, files, fitness>>
    /\ TaguchiFrame

\* One experiment has run: its record and its output file.
Ran(run) ==
    /\ experiments' = Append(experiments, run)
    /\ files' = (run.outputfile :> run) @@ files
    /\ taguchi' = [taguchi EXCEPT !.modelrun = @ + 1]

\* else: for modelrun in range(1, numbermodelruns + 1): optnamespace = ...;
\* run_model(args, modelrun, numbermodelruns, inputfile, optnamespace)
TaguchiSerialExperiment ==
    /\ taguchi.pc = "experiments"
    /\ ~inp.mpi
    /\ taguchi.modelrun <= taguchi.numbermodelruns
    /\ Ran(run_model("experiment", taguchi.i, taguchi.modelrun, taguchi.numbermodelruns,
                     optnamespace(usernamespace, optparams, taguchi.modelrun)))
    /\ UNCHANGED <<usernamespace, optparams, fitness>>
    /\ TaguchiFrame

\* if args.mpi: mpi_runs(args, numbermodelruns, inputfile, usernamespace): a
\* worker is sent the next model number and calls
\* run_model(args, modelrun, numbermodelruns, inputfile, usernamespace)
\* with the namespace mpi_runs was given, in the worker's process.
TaguchiFarmExperiment ==
    /\ taguchi.pc = "experiments"
    /\ inp.mpi
    /\ taguchi.modelrun <= taguchi.numbermodelruns
    /\ Ran(run_model("experiment", taguchi.i, taguchi.modelrun, taguchi.numbermodelruns,
                     usernamespace))
    /\ UNCHANGED <<usernamespace, optparams, fitness>>
    /\ TaguchiFrame

\* The N experiments are completed.
TaguchiExperimentsDone ==
    /\ taguchi.pc = "experiments"
    /\ ~(taguchi.modelrun <= taguchi.numbermodelruns)
    /\ taguchi' = [taguchi EXCEPT !.pc = "fitness", !.modelrun = 1]
    /\ UNCHANGED <<usernamespace, optparams, experiments, files, fitness>>
    /\ TaguchiFrame

\* for exp in range(1, numbermodelruns + 1):
\* outputfile = inputfileparts[0] + str(exp) + '.out';
\* fitness[exp - 1] = fitness_max(outputfile, ['myRx'])
TaguchiFitness ==
    /\ taguchi.pc = "fitness"
    /\ taguchi.modelrun <= taguchi.numbermodelruns
    /\ taguchi.modelrun \in DOMAIN files
    /\ fitness' = Append(fitness, [i |-> taguchi.i, exp |-> taguchi.modelrun,
                                   read |-> files[taguchi.modelrun]])
    /\ taguchi' = [taguchi EXCEPT !.modelrun = @ + 1]
    /\ UNCHANGED <<usernamespace, optparams, experiments, files>>
    /\ TaguchiFrame

\* calculate_optimal_levels; numbermodelruns = 1;
\* usernamespace['number_model_runs'] = numbermodelruns
TaguchiOptimal ==
    /\ taguchi.pc = "fitness"
    /\ ~(taguchi.modelrun <= taguchi.numbermodelruns)
    /\ optparams' = calculate_optimal_levels(taguchi.k, taguchi.i)
    /\ usernamespace' = [usernamespace EXCEPT !.number_model_runs = 1]
    /\ taguchi' = [taguchi EXCEPT !.pc = "confirmation", !.numbermodelruns = 1, !.modelrun = 1]
    /\ UNCHANGED <<experiments, files, fitness>>
    /\ TaguchiFrame

\* The confirmation experiment, lines 159-165, run serially.
TaguchiConfirmation ==
    /\ taguchi.pc = "confirmation"
    /\ taguchi.modelrun <= taguchi.numbermodelruns
    /\ Ran(run_model("confirmation", taguchi.i, taguchi.modelrun, taguchi.numbermodelruns,
                     optnamespace(usernamespace, optparams, taguchi.modelrun)))
    /\ UNCHANGED <<usernamespace, optparams, fitness>>
    /\ TaguchiFrame

\* outputfile = inputfileparts[0] + '.out'; fitnesshist[i] = fitness_max(...); i += 1
TaguchiConfirmationFitness ==
    /\ taguchi.pc = "confirmation"
    /\ ~(taguchi.modelrun <= taguchi.numbermodelruns)
    /\ 0 \in DOMAIN files
    /\ fitness' = Append(fitness, [i |-> taguchi.i, exp |-> 0, read |-> files[0]])
    /\ taguchi' = [taguchi EXCEPT !.pc = "loop", !.i = @ + 1]
    /\ UNCHANGED <<usernamespace, optparams, experiments, files>>
    /\ TaguchiFrame

TaguchiNext ==
    \/ TaguchiRanges
    \/ TaguchiEnd
    \/ TaguchiSerialExperiment
    \/ TaguchiFarmExperiment
    \/ TaguchiExperimentsDone
    \/ TaguchiFitness
    \/ TaguchiOptimal
    \/ TaguchiConfirmation
    \/ TaguchiConfirmationFitness

TaguchiSpec == TaguchiInit /\ [][TaguchiNext]_vars

\* ================================================================== claims
\* Operations by the slot they fill in a step.
PassAx == {"update_ex", "update_ex_dispersive_1pole_A", "update_ex_dispersive_multipole_A"}
PassAy == {"update_ey", "update_ey_dispersive_1pole_A", "update_ey_dispersive_multipole_A"}
PassAz == {"update_ez", "update_ez_dispersive_1pole_A", "update_ez_dispersive_multipole_A"}
PassBx == {"update_ex_dispersive_1pole_B", "update_ex_dispersive_multipole_B"}
PassBy == {"update_ey_dispersive_1pole_B", "update_ey_dispersive_multipole_B"}
PassBz == {"update_ez_dispersive_1pole_B", "update_ez_dispersive_multipole_B"}
PassA == PassAx \cup PassAy \cup PassAz
PassB == PassBx \cup PassBy \cup PassBz
OutputOps == {"write_output", "write_snapshot"}
ElectricSourceOps == {"voltagesource", "hertziandipole"}
ElectricOps == PassA \cup {"update_pml_electric"} \cup ElectricSourceOps \cup PassB
MagneticOps == {"update_hx", "update_hy", "update_hz", "update_pml_magnetic", "magneticdipole"}

\* A field value holds exactly k complete steps: every update a step makes
\* has been applied to it exactly k times.
HoldsSteps(v, k) ==
    /\ \A o \in {"update_pml_electric", "update_hx", "update_hy", "update_hz", "update_pml_magnetic"} :
          Count(v, LAMBDA u : u.op = o) = k
    /\ \A S \in {PassAx, PassAy, PassAz} : Count(v, LAMBDA u : u.op \in S) = k
    /\ \A i \in DOMAIN voltagesources : Count(v, LAMBDA u : u.op = "voltagesource" /\ u.src = i) = k
    /\ \A i \in DOMAIN hertziandipoles : Count(v, LAMBDA u : u.op = "hertziandipole" /\ u.src = i) = k
    /\ \A i \in DOMAIN magneticdipoles : Count(v, LAMBDA u : u.op = "magneticdipole" /\ u.src = i) = k

WriteOutputCalls == SelectSeq(calls, LAMBDA c : c.op = "write_output")

\* The time loop of this run is running or has ended.
InLoop ==
    pc \in {"loop", "snapshots", "electricA", "pmlelectric", "voltagesources_update",
            "hertziandipoles_update", "electricB", "magnetic", "pmlmagnetic",
            "magneticdipoles_update"}
RunEnded == pc = "main" /\ f.state = "closed"

\* C1: a run executes exactly `iterations` steps; in step n = 0 .. iterations-1,
\* in increasing order, write_output is called exactly once, with timestep n,
\* before any field update of that step; so sample n holds the fields after
\* exactly n complete steps (sample 0 the all-zero fields) and the fields the
\* last step produces are never recorded.
C1_OutputEveryStep ==
    /\ \A k \in DOMAIN WriteOutputCalls :
          WriteOutputCalls[k].timestep = k - 1 /\ WriteOutputCalls[k].n = k - 1
    /\ Len(WriteOutputCalls) <= inp.iterations
    /\ \A j \in DOMAIN calls :
          calls[j].op \notin OutputOps =>
             /\ calls[j].n < Len(WriteOutputCalls)
             /\ \E i \in 1..(j - 1) :
                   calls[i].op = "write_output" /\ calls[i].timestep = calls[j].n
    /\ (pc = "snapshots" \/ RunEnded) =>
          \A n \in DOMAIN f.samples :
             /\ f.samples[n].written = (IF n <= Len(WriteOutputCalls) THEN 1 ELSE 0)
             /\ f.samples[n].written = 1 => HoldsSteps(f.samples[n].value, n - 1)
    /\ (InLoop /\ timestep = 0 /\ pc # "loop") => f.samples[1].value = <<>>
    /\ RunEnded =>
          /\ Len(WriteOutputCalls) = inp.iterations
          /\ HoldsSteps(fields, inp.iterations)
          /\ inp.iterations > 0 => \A n \in DOMAIN f.samples : f.samples[n].value # fields

\* A run of MaxIter steps has ended and its last sample is written.
C1_Witness ==
    /\ RunEnded
    /\ inp.iterations = MaxIter
    /\ f.samples[MaxIter].written = 1
    /\ Len(f.samples[MaxIter].value) > 0

\* The slot a call fills in a step, and the source it is made on.
SlotName(op) ==
    CASE op \in PassAx -> "Ax" [] op \in PassAy -> "Ay" [] op \in PassAz -> "Az"
      [] op \in PassBx -> "Bx" [] op \in PassBy -> "By" [] op \in PassBz -> "Bz"
      [] OTHER -> op
Slot(c) == <<SlotName(c.op), c.src>>
Slots(cs) == [i \in DOMAIN cs |-> Slot(cs[i])]

IsPrefix(s, t) == Len(s) <= Len(t) /\ s = SubSeq(t, 1, Len(s))

\* The electric phase of a step, in order.
ExpectedElectric ==
    << <<"Ax", 0>>, <<"Ay", 0>>, <<"Az", 0>>, <<"update_pml_electric", 0>> >>
    \o [i \in DOMAIN voltagesources |-> <<"voltagesource", i>>]
    \o [i \in DOMAIN hertziandipoles |-> <<"hertziandipole", i>>]
    \o (IF maxpoles > 0 THEN << <<"Bx", 0>>, <<"By", 0>>, <<"Bz", 0>> >> ELSE <<>>)

\* The magnetic phase of a step, in order.
ExpectedMagnetic ==
    << <<"update_hx", 0>>, <<"update_hy", 0>>, <<"update_hz", 0>>, <<"update_pml_magnetic", 0>> >>
    \o [i \in DOMAIN magneticdipoles |-> <<"magneticdipole", i>>]

\* The calls of step n among the first j calls, restricted to a set of operations.
StepCalls(n, ops, j) == SelectSeq(SubSeq(calls, 1, j), LAMBDA c : c.n = n /\ c.op \in ops)

StepsStarted == {calls[j].n : j \in DOMAIN calls}
ElectricPhaseDone(n) ==
    n < timestep \/ pc \in {"magnetic", "pmlmagnetic", "magneticdipoles_update"}

\* C2: in every step the electric phase is pass A for Ex, Ey, Ez, then
\* update_pml_electric, then all voltage sources, then all Hertzian dipoles, then
\* (dispersive only) pass B; no voltage source follows a Hertzian dipole of the
\* same step, and pass B follows the PML correction and every electric source.
C2_ElectricPhaseOrder ==
    /\ \A n \in StepsStarted :
          LET done == Slots(StepCalls(n, ElectricOps, Len(calls)))
          IN /\ IsPrefix(done, ExpectedElectric)
             /\ ElectricPhaseDone(n) => done = ExpectedElectric
    /\ \A i, j \in DOMAIN calls :
          (i < j /\ calls[i].n = calls[j].n /\ calls[i].op = "hertziandipole")
             => calls[j].op # "voltagesource"
    /\ \A j \in DOMAIN calls :
          calls[j].op \in PassBx =>
             LET before == Slots(StepCalls(calls[j].n, ElectricOps \ PassB, j))
             IN before \o << <<"Bx", 0>>, <<"By", 0>>, <<"Bz", 0>> >> = ExpectedElectric

\* A dispersive step with two voltage sources and two Hertzian dipoles has
\* finished its electric phase.
C2_Witness ==
    /\ pc = "magnetic"
    /\ maxpoles > 0
    /\ Len(voltagesources) = 2
    /\ Len(hertziandipoles) = 2
    /\ timestep = 1

\* C3: in every step the magnetic phase starts after the whole electric phase
\* and is the H-update for Hx, Hy, Hz, then update_pml_magnetic, then the
\* magnetic sources; nothing of step n+1 starts before the magnetic sources of
\* step n have been applied.
C3_MagneticPhaseOrder ==
    /\ \A n \in StepsStarted :
          LET done == Slots(StepCalls(n, MagneticOps, Len(calls)))
          IN /\ IsPrefix(done, ExpectedMagnetic)
             /\ n < timestep => done = ExpectedMagnetic
    /\ \A j \in DOMAIN calls :
          calls[j].op \in MagneticOps =>
             /\ Slots(StepCalls(calls[j].n, ElectricOps, j)) = ExpectedElectric
             /\ \A i \in (j + 1)..Len(calls) :
                   calls[i].n = calls[j].n => calls[i].op \in MagneticOps
    /\ \A j \in 1..(Len(calls) - 1) :
          /\ calls[j + 1].n \in {calls[j].n, calls[j].n + 1}
          /\ calls[j + 1].n = calls[j].n + 1 =>
                Slots(StepCalls(calls[j].n, MagneticOps, j)) = ExpectedMagnetic

\* The second step of a run with two magnetic dipoles has started.
C3_Witness ==
    /\ pc = "snapshots"
    /\ timestep = 1
    /\ Len(magneticdipoles) = 2
    /\ Len(voltagesources) > 0

ElectricPhase == {"electricA", "pmlelectric", "voltagesources_update", "hertziandipoles_update", "electricB"}
MagneticPhase == {"magnetic", "pmlmagnetic", "magneticdipoles_update"}

\* C4: abstime starts at 0 and advances by dt/2 twice per step, between the
\* electric and the magnetic phase and after the magnetic sources: in units of
\* dt/2 the electric sources of step n get 2n, the magnetic sources 2n+1, and
\* after the loop abstime = 2*iterations; only source updates are given abstime.
C4_AbstimeHalfSteps ==
    /\ pc \in {"loop", "snapshots"} \cup ElectricPhase => abstime = 2 * timestep
    /\ pc \in MagneticPhase => abstime = 2 * timestep + 1
    /\ RunEnded => abstime = 2 * inp.iterations
    /\ \A j \in DOMAIN calls :
          /\ calls[j].op \in ElectricSourceOps => calls[j].abstime = 2 * calls[j].n
          /\ calls[j].op = "magneticdipole" => calls[j].abstime = 2 * calls[j].n + 1
          /\ calls[j].op \notin ElectricSourceOps \cup {"magneticdipole"} => calls[j].abstime = NoArg
          /\ calls[j].op = "write_output" => calls[j].abstime = NoArg /\ calls[j].timestep = calls[j].n

\* The last step of a run has applied an electric and a magnetic source.
C4_Witness ==
    /\ RunEnded
    /\ inp.iterations = MaxIter
    /\ \E j \in DOMAIN calls : calls[j].op = "magneticdipole" /\ calls[j].abstime = 2 * MaxIter - 1
    /\ \E j \in DOMAIN calls : calls[j].op = "voltagesource" /\ calls[j].abstime = 2 * MaxIter - 2

StandardKernels == {"update_ex", "update_ey", "update_ez"}
OnePoleA == {"update_ex_dispersive_1pole_A", "update_ey_dispersive_1pole_A", "update_ez_dispersive_1pole_A"}
OnePoleB == {"update_ex_dispersive_1pole_B", "update_ey_dispersive_1pole_B", "update_ez_dispersive_1pole_B"}
MultiPoleA == {"update_ex_dispersive_multipole_A", "update_ey_dispersive_multipole_A", "update_ez_dispersive_multipole_A"}
MultiPoleB == {"update_ex_dispersive_multipole_B", "update_ey_dispersive_multipole_B", "update_ez_dispersive_multipole_B"}

\* The E-update kernels called in step n.
KernelsCalled(n) == {calls[j].op : j \in {i \in DOMAIN calls : calls[i].n = n /\ calls[i].op \in PassA \cup PassB}}

\* C5: the E-update variant follows Material.maxpoles: 0 runs only the standard
\* kernels and no pass B; 1 runs the one-pole pass A and pass B; more than 1
\* runs the multi-pole pass A and pass B; no step mixes variants or runs a
\* pass A without its pass B.
C5_VariantByMaxpoles ==
    \A n \in StepsStarted :
       /\ maxpoles = 0 => KernelsCalled(n) \subseteq StandardKernels
       /\ maxpoles = 1 => KernelsCalled(n) \subseteq OnePoleA \cup OnePoleB
       /\ maxpoles > 1 => KernelsCalled(n) \subseteq MultiPoleA \cup MultiPoleB
       /\ ElectricPhaseDone(n) =>
             KernelsCalled(n) = (CASE maxpoles = 0 -> StandardKernels
                                   [] maxpoles = 1 -> OnePoleA \cup OnePoleB
                                   [] maxpoles > 1 -> MultiPoleA \cup MultiPoleB)

\* A multi-pole step has finished its electric phase.
C5_Witness ==
    /\ pc = "magnetic"
    /\ maxpoles = 2
    /\ KernelsCalled(timestep) = MultiPoleA \cup MultiPoleB

\* The call that writes snapshot i, if any.
SnapshotWrites(i) == {j \in DOMAIN calls : calls[j].op = "write_snapshot" /\ calls[j].src = i}

\* C6: a snapshot with time n+1 is written in step n, after the receiver output
\* and before the E-update of that step, and holds the fields after n complete
\* steps; over a run a prepared snapshot is written exactly once when
\* 1 <= time <= iterations and never otherwise.
C6_SnapshotSchedule ==
    /\ \A j \in DOMAIN calls :
          calls[j].op = "write_snapshot" =>
             /\ snapshots[calls[j].src].time = calls[j].n + 1
             /\ snapshots[calls[j].src].prepared
             /\ \E i \in 1..(j - 1) : calls[i].op = "write_output" /\ calls[i].n = calls[j].n
             /\ \A i \in 1..(j - 1) : calls[i].n = calls[j].n => calls[i].op \in OutputOps
    /\ \A i \in DOMAIN snapshots :
          /\ snapshots[i].written = Cardinality(SnapshotWrites(i))
          /\ snapshots[i].written <= 1
          /\ (snapshots[i].written = 1 /\ pc \in {"electricA", "main"})
                => HoldsSteps(snapshots[i].data, snapshots[i].time - 1)
          /\ RunEnded =>
                snapshots[i].written =
                   (IF 1 <= snapshots[i].time /\ snapshots[i].time <= inp.iterations THEN 1 ELSE 0)

\* A run has ended with one snapshot written after one complete step and one
\* never written.
C6_Witness ==
    /\ RunEnded
    /\ \E i, k \in DOMAIN snapshots :
          /\ snapshots[i].time = 2 /\ snapshots[i].written = 1 /\ Len(snapshots[i].data) > 0
          /\ snapshots[k].time = 0 /\ snapshots[k].written = 0

\* The material of the catalogue `mats` that an ID value references.
Referenced(mats, numID) == CHOOSE m \in {mats[i] : i \in DOMAIN mats} : m.numID = numID

\* One voltage source is processed by the step from this state.
C7_Processing == pc = "voltagesources" /\ vi <= Len(voltagesources) /\ vi' = vi + 1

C7_Step ==
    C7_Processing =>
       LET source == voltagesources[vi]
           R == source.resistance
           c == CASE source.polarisation = "x" -> 0
                  [] source.polarisation = "y" -> 1
                  [] source.polarisation = "z" -> 2
           added == CASE source.polarisation = "x" -> <<Delta.dx, R * Delta.dy * Delta.dz>>
                      [] source.polarisation = "y" -> <<Delta.dy, R * Delta.dx * Delta.dz>>
                      [] source.polarisation = "z" -> <<Delta.dz, R * Delta.dx * Delta.dy>>
           edge == <<c, source.position>>
           base == Referenced(materials, ID[edge])
           new == materials'[Len(materials')]
       IN IF R # 0
          THEN /\ Len(materials') = Len(materials) + 1
               /\ SubSeq(materials', 1, Len(materials)) = materials
               /\ new.numID = Len(materials)
               /\ new.average = FALSE
               /\ new.er = base.er
               /\ new.ID.base = base.ID.base
               /\ RatEq(new.se, RatAdd(base.se, added))
               /\ ID'[edge] = new.numID
               /\ \A e \in DOMAIN ID \ {edge} : ID'[e] = ID[e]
               /\ DOMAIN ID' = DOMAIN ID
          ELSE materials' = materials /\ ID' = ID

\* C7: a voltage source with resistance R # 0 adds one material, a copy of the
\* material ID[c, position] references with conductivity raised by
\* d_par / (R * d_perp1 * d_perp2) and average = False, numbered with the
\* catalogue length before the append, and repoints only ID[c, position] to it;
\* a source with R = 0 adds no material and changes no ID entry.
C7_DerivedMaterial == [][C7_Step]_vars

\* Two resistive voltage sources on one y edge: the second material derives
\* from the first.
C7_Witness ==
    /\ pc = "geometryviews"
    /\ Len(materials) = Len(BuiltMaterials) + 2
    /\ Len(materials[Len(materials)].ID.vs) = 2
    /\ voltagesources[2].polarisation = "y"
    /\ ID[<<1, Origin>>] = Len(materials) - 1

InSeq(x, s) == \E i \in DOMAIN s : s[i] = x

\* C8: whenever a resistive voltage source is applied in the time loop, the ID
\* entry of its polarisation at its current position references the derived
\* material that carries its resistance, in every model run.
C8_SourceEdgeHasDerivedMaterial ==
    \A j \in DOMAIN calls :
       (calls[j].op = "voltagesource" /\ voltagesources[calls[j].src].resistance # 0) =>
          LET source == voltagesources[calls[j].src]
              c == CASE source.polarisation = "x" -> 0
                     [] source.polarisation = "y" -> 1
                     [] source.polarisation = "z" -> 2
              edge == <<c, source.position>>
          IN /\ edge \in DOMAIN ID
             /\ InSeq(source.resistance, Referenced(materials, ID[edge]).ID.vs)

\* Where the input puts an object in run k, for the steps of its kind.
C9_Expected(p, step, k) ==
    IF step[1] > 0 \/ step[2] > 0 \/ step[3] > 0
    THEN <<p[1] + (k - 1) * step[1], p[2] + (k - 1) * step[2], p[3] + (k - 1) * step[3]>>
    ELSE p

C9_Placed(objects, given, step) ==
    /\ Len(objects) = Len(given)
    /\ \A i \in DOMAIN objects :
          /\ objects[i].position = C9_Expected(given[i].position, step, modelrun)
          /\ modelrun = 1 => objects[i].position = given[i].position

\* The voltage sources, Hertzian dipoles, magnetic dipoles and receivers sit
\* where the steps put them.
SimpleSourcesDisplaced ==
    InLoop =>
       /\ C9_Placed(voltagesources, inp.voltagesources, inp.srcstep)
       /\ C9_Placed(hertziandipoles, inp.hertziandipoles, inp.srcstep)
       /\ C9_Placed(magneticdipoles, inp.magneticdipoles, inp.srcstep)
       /\ C9_Placed(rxs, inp.rxs, inp.rxstep)

\* C9: in the time loop of run k every source and receiver of the grid sits
\* (k-1)*step cells from the position the input gives (source steps for
\* sources, receiver steps for receivers), not cumulated over runs; it sits at
\* the input position when k = 1 and when no step of its kind is positive.
C9_Displacement ==
    InLoop =>
       /\ C9_Placed(voltagesources, inp.voltagesources, inp.srcstep)
       /\ C9_Placed(hertziandipoles, inp.hertziandipoles, inp.srcstep)
       /\ C9_Placed(magneticdipoles, inp.magneticdipoles, inp.srcstep)
       /\ C9_Placed(transmissionlines, inp.transmissionlines, inp.srcstep)
       /\ C9_Placed(rxs, inp.rxs, inp.rxstep)

\* C10: with srcstepx = 1 the source position recorded in the output file of
\* run k is x0 + (k - 1).
C10_RecordedSourcePosition ==
    (f.state = "open" /\ inp.srcstep[1] = 1) =>
       LET given == Positions(inp.hertziandipoles) \o Positions(inp.magneticdipoles)
                       \o Positions(inp.voltagesources) \o Positions(inp.transmissionlines)
       IN /\ Len(f.srcpos) = Len(given)
          /\ \A i \in DOMAIN given : f.srcpos[i][1] = given[i][1] + (modelrun - 1)

\* A run of run_model has returned to main.
RunReturned == pc = "main" /\ modelrun > 1

\* C11: with iterations = 0 a run that is not geometry-only prepares the output
\* file (with no sample) and closes it; in between it makes no write_output
\* call, writes no snapshot and applies no field, PML or source update; the
\* loop is left at once and the run returns.
C11_ZeroIterations ==
    (inp.iterations = 0 /\ ~inp.geometry_only) =>
       /\ calls = <<>>
       /\ fields = <<>>
       /\ \A i \in DOMAIN snapshots : snapshots[i].written = 0
       /\ f.samples = <<>>
       /\ pc \in {"adjust", "loop"} => f.state = "open"
       /\ InLoop => pc = "loop" /\ timestep = 0 /\ abstime = 0 /\ ~LoopContinues
       /\ RunReturned => f.state = "closed"

\* A run with no iteration, a source and two prepared snapshots has returned.
C11_Witness ==
    /\ RunReturned
    /\ inp.iterations = 0
    /\ f.state = "closed"
    /\ Len(hertziandipoles) = 1
    /\ Len(snapshots) = 2
    /\ \A i \in DOMAIN snapshots : snapshots[i].prepared

\* The run is past the writing of the geometry views.
ViewsDone ==
    \/ pc \in {"simulate", "outputfile", "adjust"}
    \/ InLoop
    \/ RunReturned

\* The number of resistive voltage sources of the input.
Resistive == Cardinality({i \in DOMAIN inp.voltagesources : inp.voltagesources[i].resistance # 0})

\* C12: a geometry-only run builds the model (cells, derived materials, update
\* coefficients) and writes every geometry view, but prepares no snapshot,
\* creates no output file, displaces no source or receiver and makes no time
\* step; a full run writes the geometry views too, before its first time step.
C12_GeometryOnly ==
    /\ ViewsDone => geowritten = inp.geometryviews
    /\ calls # <<>> => geowritten = inp.geometryviews /\ ~inp.geometry_only
    /\ (inp.geometry_only /\ RunReturned) =>
          /\ solid = BuiltSolid(inp.geometry)
          /\ Len(materials) = Len(BuiltMaterials) + Resistive
          /\ Len(updatecoeffsE) = Len(materials)
    /\ inp.geometry_only =>
          /\ ~InLoop /\ pc \notin {"outputfile", "adjust"}
          /\ f.state = "none"
          /\ calls = <<>> /\ fields = <<>> /\ timestep = 0
          /\ \A i \in DOMAIN snapshots : ~snapshots[i].prepared /\ snapshots[i].written = 0
          /\ (pc \notin {"main", "build"} \/ modelrun > 1) =>
                /\ voltagesources = inp.voltagesources
                /\ hertziandipoles = inp.hertziandipoles
                /\ magneticdipoles = inp.magneticdipoles
                /\ transmissionlines = inp.transmissionlines
                /\ rxs = inp.rxs

\* The second geometry-only run of a sweep with positive steps has returned
\* with its geometry view written and its derived material in the catalogue.
C12_Witness ==
    /\ RunReturned
    /\ modelrun = 3
    /\ inp.geometry_only
    /\ inp.srcstep[1] > 0 /\ inp.rxstep[1] > 0
    /\ geowritten = 1
    /\ Len(materials) = Len(BuiltMaterials) + 1

\* The update coefficients of this run have been derived.
CoefficientsDone == pc = "geometryviews" \/ ViewsDone

\* A material derived for a voltage source.
Derived(material) == material.ID.vs # <<>>

C13_State ==
    /\ pc = "geometry" => \A x \in DOMAIN materials : ~Derived(materials[x])
    /\ pc \in {"geometry", "voltagesources"} =>
          \A c \in {"updatecoeffsE", "updatecoeffsH"} : c \notin DOMAIN arrays
    /\ CoefficientsDone =>
          /\ Len(materials) = Len(BuiltMaterials) + Resistive
          /\ arrays["updatecoeffsE"].shape = <<Len(materials), 5>>
          /\ arrays["updatecoeffsH"].shape = <<Len(materials), 5>>
          /\ Len(arrays["updatecoeffsE"].rows) = Len(materials)
          /\ Len(arrays["updatecoeffsH"].rows) = Len(materials)
          /\ Len(updatecoeffsE) = Len(materials)
          /\ \A x \in DOMAIN materials :
                /\ updatecoeffsE[x] = [er |-> materials[x].er, se |-> materials[x].se]
                /\ arrays["updatecoeffsE"].rows[x] = updatecoeffsE[x]
                /\ arrays["updatecoeffsH"].rows[x] = [mr |-> materials[x].mr, sm |-> materials[x].sm]

C13_Step ==
    /\ materials' # materials => pc \in {"build", "voltagesources"}
    /\ (CoefficientsDone /\ pc' # "build") =>
          /\ materials' = materials
          /\ updatecoeffsE' = updatecoeffsE
          /\ arrays' = arrays

\* C13: every derived voltage-source material is appended after the Yee-cell
\* build and before the update-coefficient arrays are allocated and filled; no
\* material is added after that, so from then on (and at the first time step)
\* updatecoeffsE and updatecoeffsH have one row per material of the catalogue
\* and row x holds the coefficients of the x-th material.
C13_CatalogueFrozen == []C13_State /\ [][C13_Step]_vars

\* A time loop has started with two derived materials in the catalogue and a
\* row for each.
C13_Witness ==
    /\ pc = "snapshots"
    /\ Resistive = 2
    /\ Len(updatecoeffsE) = Len(BuiltMaterials) + 2
    /\ Derived(materials[Len(materials)])
    /\ updatecoeffsE[Len(materials)].se # updatecoeffsE[Len(materials) - 1].se

\* C14: after the build every ID entry is below the catalogue length and every
\* material's numID is its position; the processing of the voltage sources
\* (any number of resistive ones, also several on one edge) keeps both, no two
\* materials share a numID, and the coefficient row an ID value selects is the
\* row of the material with that numID.
C14_ValidIndices ==
    (pc \in {"voltagesources", "geometryviews"} \/ ViewsDone) =>
       /\ \A e \in DOMAIN ID : 0 <= ID[e] /\ ID[e] < Len(materials)
       /\ \A x \in DOMAIN materials : materials[x].numID = x - 1
       /\ \A x, y \in DOMAIN materials : materials[x].numID = materials[y].numID => x = y
       /\ CoefficientsDone =>
             \A e \in DOMAIN ID :
                /\ ID[e] + 1 \in DOMAIN updatecoeffsE
                /\ updatecoeffsE[ID[e] + 1] = Coefficients(Referenced(materials, ID[e]))

\* Three materials derived one from the other on one z edge, and their rows.
C14_Witness ==
    /\ pc = "simulate"
    /\ Len(voltagesources) = 2
    /\ \A i \in DOMAIN voltagesources :
          voltagesources[i].polarisation = "z" /\ voltagesources[i].resistance # 0
    /\ ID[<<2, voltagesources[1].position>>] = Len(materials) - 1
    /\ Len(materials[Len(materials)].ID.vs) = 2

\* The shapes initialise_geometry_arrays gives solid, ID and the rigid masks,
\* and the rigid masks all zero.
GeometryShapes ==
    /\ DOMAIN solid = (0..Cells.nx) \X (0..Cells.ny) \X (0..Cells.nz)
    /\ DOMAIN ID = (0..5) \X ((0..Cells.nx) \X (0..Cells.ny) \X (0..Cells.nz))
    /\ arrays["rigidE"] = [shape |-> <<12, Cells.nx + 1, Cells.ny + 1, Cells.nz + 1>>, fill |-> 0]
    /\ arrays["rigidH"] = [shape |-> <<6, Cells.nx + 1, Cells.ny + 1, Cells.nz + 1>>, fill |-> 0]

\* The catalogue index of free space.
FreeSpaceIndex == (CHOOSE m \in {materials[x] : x \in DOMAIN materials} : m.ID.base = "free_space").numID

\* C15 as stated: right after the geometry arrays are initialised every entry
\* of solid and of ID holds the catalogue index of free space, which is index
\* 0; rigidE and rigidH are all zero; the shapes are [nx+1, ny+1, nz+1],
\* [6, ...], [12, ...] and [6, ...].
C15_GeometryArraysFreeSpaceZero ==
    pc = "geometry" =>
       /\ GeometryShapes
       /\ FreeSpaceIndex = 0
       /\ \A p \in DOMAIN solid : solid[p] = 0
       /\ \A e \in DOMAIN ID : ID[e] = 0

\* C15 as amended: right after the geometry arrays are initialised every entry
\* of solid and of ID holds 1, which is the catalogue index of free space
\* (index 0 is pec); rigidE and rigidH are all zero; the shapes are as stated.
C15_GeometryArraysFreeSpaceOne ==
    pc = "geometry" =>
       /\ GeometryShapes
       /\ FreeSpaceIndex = 1
       /\ \A p \in DOMAIN solid : solid[p] = 1
       /\ \A e \in DOMAIN ID : ID[e] = 1

\* The geometry arrays of a second run are initialised anew, after a first run
\* in which a derived material was put on an edge.
C15_Witness ==
    /\ pc = "geometry"
    /\ modelrun = 2
    /\ Resistive = 1
    /\ Len(materials) = Len(BuiltMaterials)

\* The Yee-staggered shapes of the six field arrays, all zero when allocated.
FieldShapes ==
    /\ arrays["Ex"] = [shape |-> <<Cells.nx, Cells.ny + 1, Cells.nz + 1>>, fill |-> 0]
    /\ arrays["Ey"] = [shape |-> <<Cells.nx + 1, Cells.ny, Cells.nz + 1>>, fill |-> 0]
    /\ arrays["Ez"] = [shape |-> <<Cells.nx + 1, Cells.ny + 1, Cells.nz>>, fill |-> 0]
    /\ arrays["Hx"] = [shape |-> <<Cells.nx + 1, Cells.ny, Cells.nz>>, fill |-> 0]
    /\ arrays["Hy"] = [shape |-> <<Cells.nx, Cells.ny + 1, Cells.nz>>, fill |-> 0]
    /\ arrays["Hz"] = [shape |-> <<Cells.nx, Cells.ny, Cells.nz + 1>>, fill |-> 0]

\* The arrays of this run have been allocated.
Allocated == pc \in {"geometry", "voltagesources"} \/ CoefficientsDone

\* The field arrays have the Yee-staggered shapes throughout the run and are
\* all zero until the first update of the first time step.
FieldArraysAllocated ==
    Allocated =>
       /\ FieldShapes
       /\ (pc \in {"geometry", "voltagesources", "geometryviews", "simulate", "outputfile", "adjust"}
            \/ (timestep = 0 /\ pc \in {"loop", "snapshots", "electricA"})) => fields = <<>>

\* C16: before the geometry is processed and before the first time step the six
\* field arrays are allocated with the Yee-staggered shapes, every element
\* zero; the grid operations run_model invokes for this and for the coefficient
\* and dispersive arrays are ones the class FDTDGrid provides; the shapes do
\* not change during the run.
C16_FieldArrays ==
    /\ FieldArraysAllocated
    /\ \A i \in DOMAIN invoked : invoked[i] \in FDTDGridMethods

\* The names of the dispersive arrays.
DispersiveArrays == {"Tx", "Ty", "Tz", "updatecoeffsdispersive"}

\* C17: the dispersive state exists if and only if Material.maxpoles # 0: then
\* Tx, Ty, Tz have the shapes [maxpoles, nx, ny+1, nz+1], [maxpoles, nx+1, ny,
\* nz+1], [maxpoles, nx+1, ny+1, nz], all zero, the coefficient table has one
\* row per material (derived ones too) and 3*maxpoles columns, and for material
\* x and pole y the triple (e0*eqt2[y], eqt[y], zt[y]) is in columns 3y..3y+2,
\* every column written exactly once; with maxpoles = 0 none of the arrays is
\* created and no kernel that reads them is called.
C17_DispersiveState ==
    /\ (Allocated /\ ~CoefficientsDone) => DispersiveArrays \cap DOMAIN arrays = {}
    /\ (CoefficientsDone /\ maxpoles = 0) =>
          /\ DispersiveArrays \cap DOMAIN arrays = {}
          /\ \A j \in DOMAIN calls : calls[j].op \notin PassA \cup PassB \/ calls[j].op \in StandardKernels
    /\ (CoefficientsDone /\ maxpoles # 0) =>
          /\ DispersiveArrays \subseteq DOMAIN arrays
          /\ arrays["Tx"] = [shape |-> <<maxpoles, Cells.nx, Cells.ny + 1, Cells.nz + 1>>, fill |-> 0]
          /\ arrays["Ty"] = [shape |-> <<maxpoles, Cells.nx + 1, Cells.ny, Cells.nz + 1>>, fill |-> 0]
          /\ arrays["Tz"] = [shape |-> <<maxpoles, Cells.nx + 1, Cells.ny + 1, Cells.nz>>, fill |-> 0]
          /\ LET table == arrays["updatecoeffsdispersive"]
             IN /\ table.shape = <<Len(BuiltMaterials) + Resistive, 3 * maxpoles>>
                /\ DOMAIN table.rows = 1..Len(materials)
                /\ Len(materials) = Len(BuiltMaterials) + Resistive
                /\ \A x \in DOMAIN table.rows :
                      /\ DOMAIN table.rows[x] = 0..(3 * maxpoles - 1)
                      /\ \A c \in DOMAIN table.rows[x] : table.rows[x][c].writes = 1
                      /\ \A y \in 0..(maxpoles - 1) :
                            /\ table.rows[x][3 * y].value = <<"e0*eqt2", materials[x].ID, y>>
                            /\ table.rows[x][3 * y + 1].value = <<"eqt", materials[x].ID, y>>
                            /\ table.rows[x][3 * y + 2].value = <<"zt", materials[x].ID, y>>

\* A two-pole model with a derived material has run its dispersive E-update.
C17_Witness ==
    /\ pc = "magnetic"
    /\ maxpoles = 2
    /\ Resistive = 1
    /\ Len(arrays["updatecoeffsdispersive"].rows) = Len(BuiltMaterials) + 1

\* The keyword arguments out of the closed range [0, n] of their axis.
OutOfRange ==
    {i \in DOMAIN kwargs :
        LET n == CASE kwargs[i][1] = "x" -> grid.nx
                   [] kwargs[i][1] = "y" -> grid.ny
                   [] kwargs[i][1] = "z" -> grid.nz
        IN kwargs[i][2] < 0 \/ kwargs[i][2] > n}

\* C18: within_bounds raises if and only if some given coordinate lies outside
\* [0, n] of its axis, and the error then names an axis whose coordinate is
\* outside; it returns None when every coordinate is inside, n itself included;
\* the grid is not changed.
C18_WithinBounds ==
    fn = "within_bounds" =>
       /\ grid \in Grids
       /\ OutOfRange = {} => result = Returns("None")
       /\ OutOfRange # {} =>
             /\ result.raised = "ValueError"
             /\ \E i \in OutOfRange : result.value = kwargs[i][1]

\* within_bounds has accepted the upper bounds of all three axes, given in the
\* order z, x, y.
C18_Witness ==
    /\ fn = "within_bounds"
    /\ kwargs = << <<"z", grid.nz>>, <<"x", grid.nx>>, <<"y", grid.ny>> >>
    /\ grid.ny < grid.nz
    /\ result = Returns("None")

Currents == {"Ix", "Iy", "Iz"}

\* C19 as stated: at every position with x = 0, y = 0 or z = 0 each of Ix, Iy
\* and Iz evaluates to zero, whatever the H field is.
C19_BoundaryCurrentZero ==
    (fn \in Currents /\ (position[1] = 0 \/ position[2] = 0 \/ position[3] = 0)
        /\ result.raised = "") =>
       result.value = 0

\* The two coordinates transverse to a current component.
Transverse(component, p) ==
    CASE component = "Ix" -> {p[2], p[3]}
      [] component = "Iy" -> {p[1], p[3]}
      [] component = "Iz" -> {p[1], p[2]}

\* C19 as amended: at every position where one of the two coordinates
\* transverse to a component is 0 (y or z for Ix, x or z for Iy, x or y for Iz)
\* that component evaluates to zero, whatever the H field is.
C19_TransverseBoundaryCurrentZero ==
    (fn \in Currents /\ 0 \in Transverse(fn, position)) => result = Returns(0)

\* Ix at y = 0, z > 0 on a field whose elements all differ.
C19_Witness ==
    /\ fn = "Ix"
    /\ position[2] = 0 /\ position[3] > 0
    /\ H = Ramp(grid, 1)
    /\ result = Returns(0)

\* The axes renamed x -> y -> z -> x: the grid and the field arrays as the next
\* component sees them.
RotateGrid(g) ==
    [nx |-> g.ny, ny |-> g.nz, nz |-> g.nx, dx |-> g.dy, dy |-> g.dz, dz |-> g.dx]
RotateName(c) == CASE c = "Hx" -> "Hy" [] c = "Hy" -> "Hz" [] c = "Hz" -> "Hx"
RotateFields(h, g) ==
    [c \in HNames |->
        [idx \in IndexSet(ShapeOfH(RotateGrid(g))[c]) |->
            h[RotateName(c)][<<idx[3], idx[1], idx[2]>>]]]

\* The line integral around the x face, read straight from the arrays.
LineIntegralX(p, h, g) ==
    g.dy * (h["Hy"][<<p[1], p[2], p[3] - 1>>] - h["Hy"][<<p[1], p[2], p[3]>>])
    + g.dz * (h["Hz"][<<p[1], p[2], p[3]>>] - h["Hz"][<<p[1], p[2] - 1, p[3]>>])

\* The elements Ix reads all exist.
ReadableX(p, h) ==
    /\ {<<p[1], p[2], p[3] - 1>>, <<p[1], p[2], p[3]>>} \subseteq DOMAIN h["Hy"]
    /\ {<<p[1], p[2], p[3]>>, <<p[1], p[2] - 1, p[3]>>} \subseteq DOMAIN h["Hz"]

\* A current component applied to a position and a record of field arrays.
Current(component, p, h, g) ==
    CASE component = "Ix" -> Ix(p[1], p[2], p[3], h["Hy"], h["Hz"], g)
      [] component = "Iy" -> Iy(p[1], p[2], p[3], h["Hx"], h["Hz"], g)
      [] component = "Iz" -> Iz(p[1], p[2], p[3], h["Hx"], h["Hy"], g)

PreviousComponent(component) ==
    CASE component = "Iy" -> "Ix" [] component = "Iz" -> "Iy" [] component = "Ix" -> "Iz"

FieldSum(h1, h2) == [c \in HNames |-> [idx \in DOMAIN h1[c] |-> h1[c][idx] + h2[c][idx]]]
FieldTimes(k, h) == [c \in HNames |-> [idx \in DOMAIN h[c] |-> k * h[c][idx]]]

C21_CancellationStopsStepping ==
    [][(cancel /\ pc = "loop") =>
          (pc' = "main" /\ f'.state = "closed" /\ fields' = fields)]_vars

\* C22: a failed run does not halt the batch: when the driver has ended, every
\* model run 1..N other than the failed one has been executed.
BatchEnded == pc = "raised" \/ (pc = "main" /\ modelrun > inp.numbermodelruns)
Executed(k) == k < modelrun
Failed(k) == pc = "raised" /\ k = modelrun

C22_FailedRunDoesNotHaltBatch ==
    BatchEnded => \A k \in 1..inp.numbermodelruns : Executed(k) \/ Failed(k)

\* C23: model runs share no mutable state: the user namespace a run is handed
\* is the one main created, whatever the runs before it did.
C23_NoSharedState ==
    pc = "build" => usernamespace = UserNamespace(inp.numbermodelruns)

\* C24: in every step, after the PML magnetic correction and the magnetic
\* dipoles, every transmission line of the grid is updated.
StepsCompleted == IF InLoop THEN 0..(timestep - 1) ELSE {}

C24_TransmissionLinesUpdated ==
    \A n \in StepsCompleted : \A i \in DOMAIN transmissionlines :
        \E j, k \in DOMAIN calls :
            /\ calls[j].op = "update_pml_magnetic" /\ calls[j].n = n
            /\ calls[k].op = "transmissionline" /\ calls[k].n = n /\ calls[k].src = i
            /\ j < k
            /\ \A m \in DOMAIN calls :
                  (calls[m].op = "magneticdipole" /\ calls[m].n = n) => m < k

\* C29: at every time step the position of every source and every receiver
\* lies inside the grid: a run whose displacement takes one outside does not
\* reach the time loop.
AllPositions ==
    Positions(voltagesources) \o Positions(hertziandipoles) \o Positions(magneticdipoles)
    \o Positions(transmissionlines) \o Positions(rxs)

C29_PositionsInsideGrid ==
    InLoop => \A i \in DOMAIN AllPositions : AllPositions[i] \in Nodes

\* C28: for every position that within_bounds accepts, Ix, Iy and Iz read only
\* elements inside the allocated Hx, Hy and Hz: no accepted position, the upper
\* faces included, makes a current calculation index outside an array.
Accepted(g, p) ==
    within_bounds(g, <<<<"x", p[1]>>, <<"y", p[2]>>, <<"z", p[3]>>>>) = Returns("None")

C28_CurrentReadsInsideArrays ==
    (fn \in Currents /\ Accepted(grid, position)) => result.raised # "IndexError"

\* The task farm: what has been handed to, and done by, a worker.
StartsTo(w) == Cardinality({i \in DOMAIN started : started[i].dest = w})
CompletedBy(w) == Cardinality({i \in DOMAIN completed : completed[i].rank = w})
Replies(w) == channel[<<0, w>>]

\* C25: with W >= 1 workers and N model runs the master sends a START for each
\* model number 1..N exactly once, in increasing order, each only in reply to a
\* READY of the worker that receives it, and none above N; no model run is
\* executed twice, no worker holds more than one model at a time, and a worker
\* that asks after all N numbers are handed out receives EXIT and runs nothing.
C25_State ==
    /\ Len(started) <= inp.numbermodelruns
    /\ \A i \in DOMAIN started : started[i].modelrun = i
    /\ \A w \in Workers :
          /\ Len(Replies(w)) <= 1
          /\ Replies(w) # <<>> => workers[w].pc = "recv"
          /\ \A i \in DOMAIN Replies(w) :
                /\ Replies(w)[i].tag \in {tags.START, tags.EXIT}
                /\ Replies(w)[i].tag = tags.START =>
                      /\ Replies(w)[i].data \in 1..inp.numbermodelruns
                      /\ started[Replies(w)[i].data].dest = w
                /\ Replies(w)[i].tag = tags.EXIT => Len(started) = inp.numbermodelruns
          /\ StartsTo(w) - CompletedBy(w) <= 1
          /\ workers[w].pc \in {"run", "done"} =>
                /\ workers[w].modelrun \in DOMAIN started
                /\ started[workers[w].modelrun].dest = w
    /\ \A i, j \in DOMAIN completed : i # j => completed[i].modelrun # completed[j].modelrun
    /\ \A i \in DOMAIN completed :
          /\ completed[i].modelrun \in DOMAIN started
          /\ started[completed[i].modelrun].dest = completed[i].rank

C25_Step ==
    /\ started' # started =>
          LET w == started'[Len(started')].dest
          IN /\ Pending(w, 0, tags.READY)
             /\ channel'[<<w, 0>>] = Tail(channel[<<w, 0>>])
             /\ workers[w].pc = "recv"
    /\ \A w \in Workers :
          workers[w].pc \in {"break", "returned"} =>
             /\ workers'[w].pc \in {"break", "returned"}
             /\ Cardinality({i \in DOMAIN completed' : completed'[i].rank = w}) = CompletedBy(w)
             /\ Len(started) = inp.numbermodelruns

C25_TaskFarmHandsOutEachRunOnce == []C25_State /\ [][C25_Step]_vars

\* Reached: two workers, N >= 2, every run done, and a worker that asked only
\* after the last number was handed out has left without running a model.
C25_Witness ==
    /\ size = MaxWorkers + 1
    /\ inp.numbermodelruns >= 2
    /\ Len(completed) = inp.numbermodelruns
    /\ \E w \in Workers : workers[w].pc = "returned" /\ CompletedBy(w) = 0
    /\ \E w \in Workers : CompletedBy(w) >= 2

\* C26: with W >= 1 workers, run_model returning and messages between each pair
\* of processes delivered reliably and in order, every process eventually
\* terminates: each worker receives EXIT, sends its own EXIT and stops; the
\* master's loop ends exactly when it has received EXIT from all W workers; no
\* process is left in a receive and no message sent is left unreceived.
FarmReturned ==
    /\ master.pc = "returned"
    /\ \A w \in Workers : workers[w].pc = "returned"
Quiet == \A p \in DOMAIN channel : channel[p] = <<>>

C26_TaskFarmTerminates ==
    /\ (size >= 2 /\ ~Refused) => <>[](FarmReturned /\ Quiet)
    /\ [](master.pc = "returned" =>
            (master.closedworkers = size - 1 /\ FarmReturned /\ Quiet))
    /\ [][(master.pc = "loop" /\ master.closedworkers = size - 1 /\ master' # master)
              => master'.pc = "returned"]_vars

\* Reached: the farm with the most workers has ended after the most runs.
C26_Witness ==
    /\ size = MaxWorkers + 1
    /\ inp.numbermodelruns = MaxRuns
    /\ FarmReturned
    /\ Quiet
    /\ Len(completed) = inp.numbermodelruns

\* C27: when mpi_runs returns on the master, every model run 1..N has been
\* executed to completion by some worker and its DONE has been received, for
\* any number of MPI processes, a single process included.
C27_AllRunsDoneOnReturn ==
    master.pc = "returned" =>
        /\ \A k \in 1..inp.numbermodelruns : \E i \in DOMAIN completed : completed[i].modelrun = k
        /\ donereceived = inp.numbermodelruns

\* C30: in each iteration of the Taguchi optimisation experiment e is run with
\* a namespace that holds, for every optimised parameter, the value at index
\* e - 1 of the parameter's experiment values, added to a fresh copy of the user
\* namespace, whether the experiments run serially or in the MPI task farm; and
\* the fitness of experiment e is read from the output file experiment e wrote.
ExperimentNamespace(i, e) ==
    [key \in Keys(taguchi.k) |-> Value(key, i, e)]
    @@ ("current_model_run" :> e)
    @@ [UserNamespace(inp.numbermodelruns) EXCEPT !.number_model_runs = taguchi.N]

C30_ExperimentNamespaces ==
    /\ \A x \in DOMAIN experiments :
          experiments[x].kind = "experiment" =>
             experiments[x].namespace = ExperimentNamespace(experiments[x].i, experiments[x].modelrun)
    /\ \A j \in DOMAIN fitness :
          fitness[j].exp # 0 =>
             /\ fitness[j].read.kind = "experiment"
             /\ fitness[j].read.i = fitness[j].i
             /\ fitness[j].read.modelrun = fitness[j].exp

\* The same over the experiments that main runs serially.
C30_SerialExperimentNamespaces == ~inp.mpi => C30_ExperimentNamespaces

====
